---- MODULE Spec2Model ----
(***************************************************************************)
(* Project LUMEN: the tool-calling orchestration layer.                    *)
(*   modules/llm/local_llm.py   LocalLLMAdapter                            *)
(*   modules/llm/groq_llm.py    GroqLLMAdapter                             *)
(*   modules/llm/router.py      LLMRouter                                  *)
(*   modules/mcp/server.py      MCPServer (execute_tool, chat)             *)
(*   modules/mcp/tools.py       MCP_TOOLS                                  *)
(*                                                                         *)
(* Python values: a dict is a record (its keys are the record's fields, a  *)
(* missing key is a missing field), a list is a sequence, None is the      *)
(* string None for text fields and NullCalls for the tool_calls field.     *)
(***************************************************************************)
EXTENDS Integers, Sequences, FiniteSets, TLC

VARIABLES
    provider,       \* LLMRouter.provider (LLM_PROVIDER), fixed at start-up
    api_key_len,    \* len(GroqLLMAdapter.api_key), fixed at start-up
    \* ---- one direct LLMRouter.generate call (generate_simple's path) ----
    rpc,            \* "idle" | "returned"
    req,            \* the arguments of the call: [messages, tools]
    env,            \* what the backends did during the call
    routed,         \* [result, calls]: what generate returned, and the adapter
                    \* generate calls it made, in order
    \* ---- one MCPServer.chat call ----
    pc,             \* "idle" | "loop" (at the while test) | "final" | "done"
    user_message,
    messages,
    tools_used,
    provider_used,
    response,       \* the last router response
    iteration,
    chat_result,    \* what chat returned
    \* ---- history of the chat, for the properties ----
    sent,           \* the router calls of this chat, in order: the arguments
                    \* of each and the number of tool calls executed before it
    requested,      \* the tool calls of the replies whose round was started
    executed,       \* the tool calls handed to execute_tool, in order
    rounds,         \* number of tool-call rounds started
    \* ---- the transaction store and one direct tool execution ----
    store,          \* the rows of the transactions table, in table order
    registry,       \* MCPServer.tools, the registry
    tpc,            \* "idle" | "returned"
    tcall,          \* the call: [op, name, arguments]
    tout,           \* what the call returned
    thrown,         \* what the tool function did: [raised, ran]
    \* ---- chat calls running at the same time on the one server ----
    chats,          \* the local variables of each running chat call
    hist            \* per caller: the text it asked, the router calls its
                    \* chat made, the replies they got, and what chat returned

vars == <<provider, api_key_len, rpc, req, env, routed, pc, user_message,
          messages, tools_used, provider_used, response, iteration,
          chat_result, sent, requested, executed, rounds,
          store, registry, tpc, tcall, tout, thrown, chats, hist>>

routerVars == <<rpc, req, env, routed>>
toolVars == <<store, registry, tpc, tcall, tout, thrown>>
concVars == <<chats, hist>>
chatVars == <<pc, user_message, messages, tools_used, provider_used, response,
              iteration, chat_result, sent, requested, executed, rounds>>

-----------------------------------------------------------------------------
(* Python values *)

None == "None"
NullCalls == [is_null |-> TRUE, list |-> <<>>]
CallList(s) == [is_null |-> FALSE, list |-> s]
\* Python truth value of a tool_calls value: None and [] are false
Truthy(tc) == ~tc.is_null /\ Len(tc.list) > 0

-----------------------------------------------------------------------------
(* modules/mcp/tools.py: the registry *)

MCP_TOOLS ==
    << [name |-> "get_monthly_spending_summary", params |-> {"month", "year"}],
       [name |-> "get_top_spending_categories", params |-> {"limit", "days"}],
       [name |-> "detect_anomalies", params |-> {"threshold_percentile"}],
       [name |-> "get_recent_transactions", params |-> {"limit", "category"}] >>

get_tool_names_Empty == <<>>
get_tool_names == [i \in 1..Len(MCP_TOOLS) |-> MCP_TOOLS[i].name]

get_available_tools_Reversed ==
    [i \in 1..Len(MCP_TOOLS) |->
        [type |-> "function",
         function |-> [name |-> MCP_TOOLS[Len(MCP_TOOLS) + 1 - i].name]]]
get_available_tools ==
    [i \in 1..Len(MCP_TOOLS) |->
        [type |-> "function", function |-> [name |-> MCP_TOOLS[i].name]]]

-----------------------------------------------------------------------------
(* modules/llm/local_llm.py, modules/llm/groq_llm.py: the adapters.        *)
(* A backend outcome is what requests.get / requests.post did:             *)
(*   [kind |-> "http", status |-> 200, body |-> [choices |-> <<[message]>>]]*)
(*   [kind |-> "http", status |-> 200, body |-> [error |-> ...]] (no        *)
(*       "choices": the payload is malformed and the lookup raises)        *)
(*   [kind |-> "http", status |-> s], s # 200                              *)
(*   [kind |-> "timeout"], [kind |-> "connection"]  (requests exceptions)  *)
(***************************************************************************)

HTTP_OK == 200
HTTP_UNAUTHORIZED == 401
HTTP_RATE_LIMITED == 429

\* dict.get(key) on a message of the backend payload
GetContent(message) ==
    IF "content" \in DOMAIN message THEN message.content ELSE None
GetToolCalls(message) ==
    IF "tool_calls" \in DOMAIN message THEN CallList(message.tool_calls)
    ELSE NullCalls

Failure(text) ==
    [success |-> FALSE, content |-> None, tool_calls |-> NullCalls, error |-> text]

StatusText(status) ==
    CASE status = 400 -> "400" [] status = 401 -> "401" [] status = 404 -> "404"
      [] status = 429 -> "429" [] status = 500 -> "500" [] status = 503 -> "503"
      [] OTHER -> "xxx"

\* LocalLLMAdapter.is_available: GET <url>/models, True only for status 200;
\* every exception is swallowed
LocalIsAvailable(probe) ==
    IF probe.kind = "http" THEN probe.status = HTTP_OK ELSE FALSE

\* LocalLLMAdapter.generate
LocalGenerate_TrustsPayload(msgs, tools, backend) ==
    IF backend.kind = "http" /\ backend.status = HTTP_OK
    THEN [success |-> TRUE, content |-> None, tool_calls |-> NullCalls,
          error |-> None]
    ELSE Failure("Local LLM error")
LocalGenerate(msgs, tools, backend) ==
    IF backend.kind = "http"
    THEN IF backend.status = HTTP_OK
         THEN IF "choices" \in DOMAIN backend.body
              THEN LET message == backend.body.choices[1].message
                   IN  [success |-> TRUE,
                        content |-> GetContent(message),
                        tool_calls |-> GetToolCalls(message),
                        error |-> None]
              ELSE Failure("Local LLM error: 'choices'")
         ELSE Failure("Local LLM error: HTTP " \o StatusText(backend.status))
    ELSE IF backend.kind = "timeout"
    THEN Failure("Local LLM request timed out")
    ELSE IF backend.kind = "connection"
    THEN Failure("Could not connect to local LLM server")
    ELSE Failure("Local LLM error: " \o backend.text)

\* the shortest key GroqLLMAdapter.is_available accepts is longer than this
MIN_KEY_LEN == 10

\* GroqLLMAdapter.is_available: bool(api_key and len(api_key) > 10)
GroqIsAvailable(keyLen) == keyLen > 0 /\ keyLen > MIN_KEY_LEN

\* GroqLLMAdapter.generate
GroqGenerate(msgs, tools, keyLen, backend) ==
    IF keyLen = 0
    THEN Failure("Groq API key not configured")
    ELSE IF backend.kind = "http"
    THEN IF backend.status = HTTP_OK
         THEN IF "choices" \in DOMAIN backend.body
              THEN LET message == backend.body.choices[1].message
                   IN  [success |-> TRUE,
                        content |-> GetContent(message),
                        tool_calls |-> GetToolCalls(message),
                        error |-> None]
              ELSE Failure("Groq API error: 'choices'")
         ELSE IF backend.status = HTTP_UNAUTHORIZED
         THEN Failure("Groq API authentication failed - check API key")
         ELSE IF backend.status = HTTP_RATE_LIMITED
         THEN Failure("Groq API rate limit exceeded")
         ELSE Failure("Groq API error: HTTP " \o StatusText(backend.status))
    ELSE IF backend.kind = "timeout"
    THEN Failure("Groq API request timed out")
    ELSE IF backend.kind = "connection"
    THEN Failure("Could not connect to Groq API")
    ELSE Failure("Groq API error: " \o backend.text)

-----------------------------------------------------------------------------
(* modules/llm/router.py: LLMRouter.generate.                              *)
(* e is what the backends do during the call: e.probe answers the local    *)
(* adapter's health check, e.local and e.groq answer the adapters' posts.  *)
(* The value is [result, calls]: the dict generate returns and the adapter *)
(* generate calls it made, in order, each with the arguments it was given. *)
(***************************************************************************)

NO_LLM == "No LLM available. Check local server or Groq API key."

\* result["provider_used"] = name
SetProviderUsed(result, name) == [provider_used |-> name] @@ result

AdapterCall(name, msgs, tools) ==
    [adapter |-> name, messages |-> msgs, tools |-> tools]

UnifiedFailure ==
    [success |-> FALSE, content |-> None, tool_calls |-> NullCalls,
     provider_used |-> None, error |-> NO_LLM]

\* lines 115-118: the "local" policy
LocalOnly_Auto(msgs, tools, e) ==
    LET result1 == LocalGenerate(msgs, tools, e.local)
        calls1 == <<AdapterCall("local", msgs, tools)>>
    IN  IF result1.success
        THEN [result |-> SetProviderUsed(result1, "local"), calls |-> calls1]
        ELSE [result |-> SetProviderUsed(GroqGenerate(msgs, tools, 1, e.groq), "groq"),
              calls |-> Append(calls1, AdapterCall("groq", msgs, tools))]
LocalOnly(msgs, tools, e) ==
    [result |-> SetProviderUsed(LocalGenerate(msgs, tools, e.local), "local"),
     calls |-> <<AdapterCall("local", msgs, tools)>>]

\* lines 121-124: the "groq" policy
GroqOnly(keyLen, msgs, tools, e) ==
    [result |-> SetProviderUsed(GroqGenerate(msgs, tools, keyLen, e.groq), "groq"),
     calls |-> <<AdapterCall("groq", msgs, tools)>>]

\* lines 139-153: the fallback to Groq, after the adapter calls made so far
Fallback_NoCheck(keyLen, msgs, tools, e, calls1) ==
    [result |-> SetProviderUsed(GroqGenerate(msgs, tools, keyLen, e.groq), "groq"),
     calls |-> Append(calls1, AdapterCall("groq", msgs, tools))]
Fallback_RetryLocal(keyLen, msgs, tools, e, calls1) ==
    IF GroqIsAvailable(keyLen)
    THEN LET result2 == GroqGenerate(msgs, tools, keyLen, e.groq)
         IN  IF result2.success
             THEN [result |-> SetProviderUsed(result2, "groq"),
                   calls |-> Append(calls1, AdapterCall("groq", msgs, tools))]
             ELSE [result |-> SetProviderUsed(LocalGenerate(msgs, tools, e.local), "local"),
                   calls |-> calls1 \o <<AdapterCall("groq", msgs, tools),
                                         AdapterCall("local", msgs, tools)>>]
    ELSE [result |-> UnifiedFailure, calls |-> calls1]
Fallback(keyLen, msgs, tools, e, calls1) ==
    IF GroqIsAvailable(keyLen)
    THEN [result |-> SetProviderUsed(GroqGenerate(msgs, tools, keyLen, e.groq), "groq"),
          calls |-> Append(calls1, AdapterCall("groq", msgs, tools))]
    ELSE [result |-> UnifiedFailure, calls |-> calls1]

\* lines 127-153: the "auto" policy
Auto_SkipProbe(keyLen, msgs, tools, e) ==
    LET result1 == LocalGenerate(msgs, tools, e.local)
        calls1 == <<AdapterCall("local", msgs, tools)>>
    IN  IF result1.success
        THEN [result |-> SetProviderUsed(result1, "local"), calls |-> calls1]
        ELSE Fallback(keyLen, msgs, tools, e, calls1)
Auto_OnlyConnectivity(keyLen, msgs, tools, e) ==
    IF LocalIsAvailable(e.probe)
    THEN LET result1 == LocalGenerate(msgs, tools, e.local)
             calls1 == <<AdapterCall("local", msgs, tools)>>
         IN  IF result1.success \/ e.local.kind = "http"
             THEN [result |-> SetProviderUsed(result1, "local"), calls |-> calls1]
             ELSE Fallback(keyLen, msgs, tools, e, calls1)
    ELSE Fallback(keyLen, msgs, tools, e, <<>>)
Auto(keyLen, msgs, tools, e) ==
    IF LocalIsAvailable(e.probe)
    THEN LET result1 == LocalGenerate(msgs, tools, e.local)
             calls1 == <<AdapterCall("local", msgs, tools)>>
         IN  IF result1.success
             THEN [result |-> SetProviderUsed(result1, "local"), calls |-> calls1]
             ELSE Fallback(keyLen, msgs, tools, e, calls1)
    ELSE Fallback(keyLen, msgs, tools, e, <<>>)

RouterGenerate(policy, keyLen, msgs, tools, e) ==
    IF policy = "local" THEN LocalOnly(msgs, tools, e)
    ELSE IF policy = "groq" THEN GroqOnly(keyLen, msgs, tools, e)
    ELSE Auto(keyLen, msgs, tools, e)

-----------------------------------------------------------------------------
(* The environment: configurations, backend outcomes, model replies *)

\* longest list of tool calls a model reply carries
MaxCalls == 4

Policies == {"local", "groq", "auto"}
\* GROQ_API_KEY unset, set to a short string, set to a real key
KeyLens == {0, 5, 56}

\* the arguments strings a model writes
ARGS_EMPTY == "{}"
ARGS_DAYS == "{\"days\": 30}"
ARGS_BOGUS == "{\"bogus\": 1}"
ARGS_YEAR0 == "{\"year\": 0}"
ARGS_BROKEN == "{\"days\": 30"
ARGS_DAYS_STR == "{\"days\": \"thirty\"}"

ToolCall(id, name, arguments) ==
    [id |-> id, type |-> "function",
     function |-> [name |-> name, arguments |-> arguments]]

tcTop == ToolCall("call_1", "get_top_spending_categories", ARGS_DAYS)
tcRecent == ToolCall("call_2", "get_recent_transactions", ARGS_BROKEN)
tcUnknown == ToolCall("call_3", "run_sql", ARGS_EMPTY)
tcBogus == ToolCall("call_4", "detect_anomalies", ARGS_BOGUS)
tcYear0 == ToolCall("call_5", "get_monthly_spending_summary", ARGS_YEAR0)
\* malformed tool calls: no "id", no function "name"
tcNoId == [type |-> "function",
           function |-> [name |-> "detect_anomalies", arguments |-> ARGS_EMPTY]]
tcNoName == [id |-> "call_7", type |-> "function",
             function |-> [arguments |-> ARGS_EMPTY]]

AllCallLists ==
    { <<tcTop>>,
      <<tcUnknown, tcYear0, tcBogus, tcRecent>>,
      <<tcNoName>>,
      <<tcBogus, tcNoId>>,
      <<tcBogus, tcTop, tcUnknown, tcRecent, tcYear0>> }
ToolCallLists == { l \in AllCallLists : Len(l) <= MaxCalls }

ANSWER == "You spent 4,200 rupees on Dining."
THINKING == "Let me look that up."

\* the message of a well-formed payload
PlainMessages ==
    { [content |-> ANSWER],
      [content |-> ANSWER, tool_calls |-> <<>>],
      [content |-> ""],
      [content |-> None] }
CallingMessages ==
    { [content |-> c, tool_calls |-> l] : c \in {None, THINKING}, l \in ToolCallLists }
ModelMessages == PlainMessages \cup CallingMessages

Payload(message) ==
    [kind |-> "http", status |-> HTTP_OK, body |-> [choices |-> <<[message |-> message]>>]]
FailedPosts ==
    { [kind |-> "http", status |-> HTTP_OK, body |-> [error |-> "overloaded"]],
      [kind |-> "http", status |-> HTTP_UNAUTHORIZED],
      [kind |-> "http", status |-> HTTP_RATE_LIMITED],
      [kind |-> "http", status |-> 500],
      [kind |-> "timeout"],
      [kind |-> "connection"],
      [kind |-> "exception", text |-> "Exceeded 30 redirects."] }
Posts == { Payload(m) : m \in ModelMessages } \cup FailedPosts
Probes ==
    { [kind |-> "http", status |-> HTTP_OK],
      [kind |-> "http", status |-> 503],
      [kind |-> "connection"] }
Envs == [probe : Probes, local : Posts, groq : Posts]

UserMessages ==
    { "What did I spend on Dining in the last 30 days?",
      "Any unusual transactions?" }

\* tools=None of generate_simple; the adapters only test `if tools:`
NO_TOOLS == <<>>

-----------------------------------------------------------------------------
(* A direct caller of the router: generate_simple, or any generate call    *)

SYSTEM_PROMPT == "You are a helpful financial assistant for Project LUMEN."

SystemMessage == [role |-> "system", content |-> SYSTEM_PROMPT]
UserMessage(text) == [role |-> "user", content |-> text]

NoReq == [messages |-> <<>>, tools |-> NO_TOOLS]
NoEnv == [probe |-> [kind |-> "connection"], local |-> [kind |-> "connection"],
          groq |-> [kind |-> "connection"]]
NoRouted == [result |-> SetProviderUsed(Failure(None), None), calls |-> <<>>]

\* the message sequences generate_simple builds
SimpleRequests ==
    { <<UserMessage("Extract the transaction details from the text below.")>>,
      <<SystemMessage, UserMessage("Summarise this receipt.")>> }

generate(msgs, tools, e) ==
    /\ rpc = "idle"
    /\ req' = [messages |-> msgs, tools |-> tools]
    /\ env' = e
    /\ routed' = RouterGenerate(provider, api_key_len, msgs, tools, e)
    /\ rpc' = "returned"
    /\ UNCHANGED <<provider, api_key_len>>
    /\ UNCHANGED chatVars
    /\ UNCHANGED toolVars
    /\ UNCHANGED concVars

RouterReturn ==
    /\ rpc = "returned"
    /\ rpc' = "idle"
    /\ req' = NoReq
    /\ env' = NoEnv
    /\ routed' = NoRouted
    /\ UNCHANGED <<provider, api_key_len>>
    /\ UNCHANGED chatVars
    /\ UNCHANGED toolVars
    /\ UNCHANGED concVars

-----------------------------------------------------------------------------
(* modules/mcp/server.py: MCPServer.execute_tool                           *)

EmptyDict == <<>>
\* a parsed JSON scalar, with its Python type
JInt(n) == [type |-> "int", v |-> n]
JStr(text) == [type |-> "str", v |-> text]
\* "result": None of a failed execution
NullResult == [is_null |-> TRUE]

\* json.loads on the arguments strings: the parsed object, or JSONDecodeError
json_loads(text) ==
    CASE text = ARGS_EMPTY -> [ok |-> TRUE, value |-> EmptyDict]
      [] text = ARGS_DAYS -> [ok |-> TRUE, value |-> [days |-> JInt(30)]]
      [] text = ARGS_BOGUS -> [ok |-> TRUE, value |-> [bogus |-> JInt(1)]]
      [] text = ARGS_YEAR0 -> [ok |-> TRUE, value |-> [year |-> JInt(0)]]
      [] text = ARGS_DAYS_STR -> [ok |-> TRUE, value |-> [days |-> JStr("thirty")]]
      [] OTHER -> [ok |-> FALSE]

\* json.dumps of the dicts chat encodes: {"error": text} and a tool's result
json_dumps(d) ==
    IF "error" \in DOMAIN d
    THEN "{\"error\": \"" \o d.error \o "\"}"
    ELSE "{\"tool\": \"" \o d.tool \o "\", \"rows\": \"...\"}"

RECURSIVE JoinNames(_)
JoinNames(names) ==
    IF names = <<>> THEN ""
    ELSE IF Len(names) = 1 THEN "'" \o names[1] \o "'"
    ELSE "'" \o names[1] \o "', " \o JoinNames(Tail(names))

ToolNameSet == { MCP_TOOLS[i].name : i \in 1..Len(MCP_TOOLS) }
ToolEntry(name) == MCP_TOOLS[CHOOSE i \in 1..Len(MCP_TOOLS) : MCP_TOOLS[i].name = name]

\* func(**args) for a registered tool: binding the keyword arguments, then
\* the tool's body.  get_monthly_spending_summary builds datetime(year, m, 1),
\* which raises ValueError for a year outside 1..9999.
\* ran tells whether the body of the tool function was entered.
\* get_top_spending_categories builds timedelta(days=days), which raises
\* TypeError for a string.
CallTool(name, args) ==
    IF ~(DOMAIN args \subseteq ToolEntry(name).params)
    THEN [raised |-> "TypeError", ran |-> FALSE,
          text |-> name \o "() got an unexpected keyword argument"]
    ELSE IF name = "get_monthly_spending_summary" /\ "year" \in DOMAIN args
            /\ args.year.type = "int"
            /\ (args.year.v < 1 \/ args.year.v > 9999)
    THEN [raised |-> "ValueError", ran |-> TRUE, text |-> "year is out of range"]
    ELSE IF name = "get_top_spending_categories" /\ "days" \in DOMAIN args
            /\ args.days.type = "str"
    THEN [raised |-> "TypeError", ran |-> TRUE,
          text |-> "unsupported type for timedelta days component: str"]
    ELSE [raised |-> None, ran |-> TRUE, value |-> [tool |-> name]]

execute_tool(tool_name, arguments) ==
    IF tool_name \notin ToolNameSet
    THEN [success |-> FALSE, tool |-> tool_name, result |-> NullResult,
          error |-> "Unknown tool: " \o tool_name \o ". Available: ["
                    \o JoinNames(get_tool_names) \o "]"]
    ELSE LET out == CallTool(tool_name, arguments)
         IN  IF out.raised = None
             THEN [success |-> TRUE, tool |-> tool_name, result |-> out.value,
                   error |-> None]
             ELSE IF out.raised = "TypeError"
             THEN [success |-> FALSE, tool |-> tool_name, result |-> NullResult,
                   error |-> "Invalid arguments for " \o tool_name \o ": " \o out.text]
             ELSE [success |-> FALSE, tool |-> tool_name, result |-> NullResult,
                   error |-> "Tool execution failed: " \o out.raised]

-----------------------------------------------------------------------------
(* modules/mcp/tools.py: the transactions table and detect_anomalies.      *)
(* A row is [txn_id, amount, is_suspicious]; txn_id is the primary key; a  *)
(* NULL amount is a row without the amount field.  Amounts are whole       *)
(* rupees, so round(amount, 2) leaves them as they are.                    *)

\* largest number of rows in the table
MaxStore == 22

AmountPatterns == {"rising", "flat", "pairs", "mixed"}
FlagPatterns == {"none", "all", "odd", "top"}

PatternAmount(ap, i) ==
    CASE ap = "rising" -> i * 100
      [] ap = "flat" -> 500
      [] ap = "pairs" -> ((i + 1) \div 2) * 100
      [] OTHER -> ((i * 7) % 5) * 100
PatternFlag(fp, i, n) ==
    CASE fp = "none" -> FALSE
      [] fp = "all" -> TRUE
      [] fp = "odd" -> i % 2 = 1
      [] OTHER -> i > n - 2
Row(ap, fp, i, n) ==
    IF ap = "mixed" /\ i % 4 = 0
    THEN [txn_id |-> i, is_suspicious |-> PatternFlag(fp, i, n)]
    ELSE [txn_id |-> i, amount |-> PatternAmount(ap, i),
          is_suspicious |-> PatternFlag(fp, i, n)]
MakeStore(n, ap, fp) == [i \in 1..n |-> Row(ap, fp, i, n)]
Stores ==
    { MakeStore(n, ap, fp) : n \in 0..MaxStore, ap \in AmountPatterns,
                             fp \in FlagPatterns }
SampleStore == MakeStore(3, "rising", "none")

\* t.amount or 0
AmountOrZero(t) == IF "amount" \in DOMAIN t THEN t.amount ELSE 0

\* line 194: sorted([t.amount or 0 for t in transactions])
SortedAmounts(rows) ==
    LET n == Len(rows)
        a == [i \in 1..n |-> AmountOrZero(rows[i])]
        place == [i \in 1..n |->
                     1 + Cardinality({j \in 1..n : a[j] < a[i]})
                       + Cardinality({j \in 1..(i - 1) : a[j] = a[i]})]
    IN  [k \in 1..n |-> a[CHOOSE i \in 1..n : place[i] = k]]

\* line 210: f"High-value transaction (above {int(threshold_percentile)}th percentile)"
HighValueReason(threshold_percentile) ==
    "High-value transaction (above " \o ToString(threshold_percentile)
    \o "th percentile)"
FLAGGED == "Flagged as suspicious by system"
Anomaly(t, amount, reason) ==
    [txn_id |-> t.txn_id, amount |-> amount, reason |-> reason]

\* lines 202-211: the transactions above the threshold, in table order
HighValue(rows, threshold_amount, threshold_percentile) ==
    LET Above(t) == AmountOrZero(t) > threshold_amount
        above == SelectSeq(rows, Above)
    IN  [i \in 1..Len(above) |->
            Anomaly(above[i], above[i].amount, HighValueReason(threshold_percentile))]

\* line 218: any(a['txn_id'] == t.txn_id for a in anomalies)
AlreadyListed_Never(anomalies, txn_id) == FALSE
AlreadyListed(anomalies, txn_id) ==
    \E i \in 1..Len(anomalies) : anomalies[i].txn_id = txn_id

\* lines 214-226: the suspicious transactions not yet listed are appended
\* (the i-th suspicious one is tested against the list as it is when its
\* turn comes: the given anomalies and the suspicious ones before it)
AddSuspicious(rows, anomalies) ==
    LET Flagged(t) == t.is_suspicious
        suspicious == SelectSeq(rows, Flagged)
        entry == [i \in 1..Len(suspicious) |->
                     Anomaly(suspicious[i], AmountOrZero(suspicious[i]), FLAGGED)]
        keep == {i \in 1..Len(suspicious) :
                    ~AlreadyListed(anomalies \o SubSeq(entry, 1, i - 1),
                                   suspicious[i].txn_id)}
        nth == [k \in 1..Cardinality(keep) |->
                   CHOOSE i \in keep : Cardinality({j \in keep : j < i}) = k - 1]
    IN  anomalies \o [k \in 1..Cardinality(keep) |-> entry[nth[k]]]

\* line 244: sorted(anomalies, key=amount, reverse=True), a stable sort
\* an entry comes behind the entries of a larger amount and behind the
\* entries of the same amount that were listed before it
SortDesc(anomalies) ==
    LET n == Len(anomalies)
        place == [i \in 1..n |->
                     1 + Cardinality({j \in 1..n :
                                        anomalies[j].amount > anomalies[i].amount})
                       + Cardinality({j \in 1..(i - 1) :
                                        anomalies[j].amount = anomalies[i].amount})]
    IN  [k \in 1..n |-> anomalies[CHOOSE i \in 1..n : place[i] = k]]

\* line 244: [:10]
ANOMALY_CAP == 10
TopAnomalies(anomalies) ==
    SubSeq(anomalies, 1, IF Len(anomalies) < ANOMALY_CAP THEN Len(anomalies)
                         ELSE ANOMALY_CAP)

\* line 195: threshold_idx = int(len(amounts) * threshold_percentile / 100)
ThresholdIndex_Below(n, threshold_percentile) == ((n - 1) * threshold_percentile) \div 100
ThresholdIndex(n, threshold_percentile) == (n * threshold_percentile) \div 100

\* detect_anomalies(threshold_percentile) on the table rows; the "patterns"
\* texts of the result are left out
detect_anomalies(threshold_percentile, rows) ==
    IF rows = <<>>
    THEN [anomaly_count |-> 0, threshold_amount |-> 0, anomalies |-> <<>>]
    ELSE LET amounts == SortedAmounts(rows)
             threshold_idx == ThresholdIndex(Len(amounts), threshold_percentile)
             threshold_amount ==
                 amounts[(IF threshold_idx < Len(amounts) - 1 THEN threshold_idx
                          ELSE Len(amounts) - 1) + 1]
             anomalies == TopAnomalies(SortDesc(
                              AddSuspicious(rows, HighValue(rows, threshold_amount,
                                                           threshold_percentile))))
         IN  [anomaly_count |-> Len(anomalies),
              threshold_amount |-> threshold_amount,
              anomalies |-> anomalies]

\* the tools only query: Transaction.query ... .all(), no add, delete, commit
StoreAfter_Audit(name, args, rows) ==
    Append(rows, [txn_id |-> Len(rows) + 1, amount |-> 0, is_suspicious |-> FALSE])
StoreAfter(name, args, rows) == rows

-----------------------------------------------------------------------------
(* modules/mcp/tools.py: the three reporting tools.  They read the columns *)
(* type, amount, date and category.  A date is the string "YYYY-MM-DD",    *)
(* held as <<year, month, day>>: the strings of four-digit years compare   *)
(* as these triples do, field by field.  Amounts are whole rupees; an      *)
(* average is held in hundredths and a percentage in tenths, which is what *)
(* round(x, 2) and round(x, 1) keep.                                       *)

\* largest number of rows of a ledger
MaxLedger == 52

IsLeap(y) == y % 4 = 0 /\ (y % 100 # 0 \/ y % 400 = 0)
DaysInMonth(y, m) ==
    IF m = 2 THEN (IF IsLeap(y) THEN 29 ELSE 28)
    ELSE IF m \in {4, 6, 9, 11} THEN 30 ELSE 31
RECURSIVE YearStart(_)
YearStart(y) ==
    IF y <= 2023 THEN 0
    ELSE YearStart(y - 1) + (IF IsLeap(y - 1) THEN 366 ELSE 365)
RECURSIVE MonthStart(_, _)
MonthStart(y, m) ==
    IF m <= 1 THEN YearStart(y) ELSE MonthStart(y, m - 1) + DaysInMonth(y, m - 1)
\* date.toordinal(), counted from the last day of 2022
Ordinal(date) == MonthStart(date[1], date[2]) + date[3]
FromOrdinal(n) ==
    LET y == CHOOSE yy \in 2023..2026 : YearStart(yy) < n /\ n <= YearStart(yy + 1)
        m == CHOOSE mm \in 1..12 :
                 MonthStart(y, mm) < n /\ n <= MonthStart(y, mm) + DaysInMonth(y, mm)
    IN  <<y, m, n - MonthStart(y, m)>>
\* (date - timedelta(days=days)).strftime("%Y-%m-%d")
MinusDays(date, days) == FromOrdinal(Ordinal(date) - days)
\* comparison of two date strings
DateLess(a, b) ==
    \/ a[1] < b[1]
    \/ a[1] = b[1] /\ a[2] < b[2]
    \/ a[1] = b[1] /\ a[2] = b[2] /\ a[3] < b[3]

\* datetime.now() of a call
Nows == { <<2025, 3, 15>>, <<2025, 1, 10>> }

\* a row of a ledger: tp is "debits" or "mixed" (credits and rows of no
\* type among the debits), dp is "march" (all in March 2025), "spread" (from
\* 99 days before 2025-03-15 to 20 days after it) or "old" (2024), ap is an
\* amount pattern, "mixed" leaving every fourth amount NULL
LedgerRow(tp, dp, ap, i) ==
    LET type == IF tp = "debits" THEN "debit"
                ELSE IF i % 3 = 0 THEN "credit"
                ELSE IF i % 7 = 0 THEN None
                ELSE "debit"
        date == IF dp = "march" THEN <<2025, 3, 1 + ((i * 5) % 28)>>
                ELSE IF dp = "spread"
                THEN FromOrdinal(Ordinal(<<2025, 3, 15>>) + 20 - ((i * 37) % 120))
                ELSE <<2024, 1 + (i % 12), 10>>
        category == IF i % 8 = 0 THEN "Other"
                    ELSE IF i % 4 = 0 THEN None
                    ELSE IF i % 4 = 1 THEN "Dining"
                    ELSE IF i % 4 = 2 THEN "Shopping"
                    ELSE "Travel"
    IN  IF ap = "mixed" /\ i % 4 = 0
        THEN [txn_id |-> i, type |-> type, date |-> date,
              category |-> category, is_suspicious |-> FALSE]
        ELSE [txn_id |-> i, type |-> type, date |-> date,
              category |-> category, is_suspicious |-> FALSE,
              amount |-> PatternAmount(ap, i)]
Ledgers ==
    { [i \in 1..n |-> LedgerRow(tp, dp, ap, i)] :
          n \in {0, 1, 2, 3, 5, 8, 50, 51, MaxLedger}, tp \in {"debits", "mixed"},
          dp \in {"march", "spread", "old"}, ap \in {"rising", "mixed"} }

\* sum(t.amount or 0 for t in rows)
SumAmounts(rows) ==
    LET f == [i \in 1..Len(rows) |-> AmountOrZero(rows[i])]
        RECURSIVE SumRange(_, _)
        SumRange(lo, hi) ==
            IF lo > hi THEN 0
            ELSE IF lo = hi THEN f[lo]
            ELSE LET mid == (lo + hi) \div 2
                 IN  SumRange(lo, mid) + SumRange(mid + 1, hi)
    IN  SumRange(1, Len(rows))

\* round(num / den * scale, .) to a whole number of units, ties to even as
\* Python's round does for the exactly representable ties
RoundDiv(num, den) ==
    LET q == num \div den
        r == num % den
    IN  IF 2 * r < den THEN q
        ELSE IF 2 * r > den THEN q + 1
        ELSE IF q % 2 = 0 THEN q ELSE q + 1

NoArg == [type |-> "none", v |-> None]

\* lines 46-57: the month the summary is for.  A string is looked up,
\* lower-cased, among the month names and stands for the current month when
\* it is none of them.
TargetMonth(month, now) ==
    LET month_names ==
            [january |-> 1, february |-> 2, march |-> 3, april |-> 4, may |-> 5,
             june |-> 6, july |-> 7, august |-> 8, september |-> 9, october |-> 10,
             november |-> 11, december |-> 12]
        lower == CASE month.v = "March" -> "march"
                   [] month.v = "JANUARY" -> "january"
                   [] OTHER -> month.v
    IN  IF month.type = "none" THEN now[2]
        ELSE IF month.type = "str"
        THEN IF lower \in DOMAIN month_names THEN month_names[lower] ELSE now[2]
        ELSE month.v

\* avg_tx = total_spent / tx_count if tx_count > 0 else 0, in hundredths
AvgTransaction(total_spent, tx_count) ==
    IF tx_count > 0 THEN RoundDiv(total_spent * 100, tx_count) ELSE 0

\* line 70: net_flow = total_income - total_spent
NetFlow_Swapped(total_income, total_spent) == total_spent - total_income
NetFlow(total_income, total_spent) == total_income - total_spent

\* get_monthly_spending_summary(month, year) at time now on the table rows.
\* datetime(year, target_month, 1) raises ValueError for a month outside
\* 1..12 or a year outside 1..9999.
get_monthly_spending_summary(month, year, now, rows) ==
    LET y == IF year.type = "none" THEN now[1] ELSE year.v
        target_month == TargetMonth(month, now)
        InMonth(t) == t.date[1] = y /\ t.date[2] = target_month
        transactions == SelectSeq(rows, InMonth)
        IsDebit(t) == t.type = "debit"
        IsCredit(t) == t.type = "credit"
        total_spent == SumAmounts(SelectSeq(transactions, IsDebit))
        total_income == SumAmounts(SelectSeq(transactions, IsCredit))
        tx_count == Len(transactions)
    IN  IF target_month \notin 1..12 \/ y < 1 \/ y > 9999
        THEN [raised |-> "ValueError"]
        ELSE [raised |-> None,
              value |-> [month |-> <<y, target_month>>,
                         total_spent |-> total_spent,
                         total_income |-> total_income,
                         net_flow |-> NetFlow(total_income, total_spent),
                         transaction_count |-> tx_count,
                         avg_transaction |-> AvgTransaction(total_spent, tx_count)]]

\* t.category or 'Other'
CategoryOrOther(t) == IF t.category = None THEN "Other" ELSE t.category

\* lines 115-118: the debit transactions dated from start_str on
InWindow(t, start_str, now) ==
    /\ t.type = "debit"
    /\ ~DateLess(t.date, start_str)

\* seq[:limit] of Python
Slice(seq, limit) ==
    SubSeq(seq, 1, IF limit >= 0
                   THEN (IF limit < Len(seq) THEN limit ELSE Len(seq))
                   ELSE Len(seq) + limit)

\* line 133: sorted(category_totals.items(), key=amount, reverse=True)
SortCategories_Unsorted(entries) == entries
SortCategories(entries) == SortDesc(entries)

\* get_top_spending_categories(limit, days) at time now on the table rows
get_top_spending_categories(limit, days, now, rows) ==
    LET start_str == MinusDays(now, days)
        Selected(t) == InWindow(t, start_str, now)
        transactions == SelectSeq(rows, Selected)
        n == Len(transactions)
        cat == [i \in 1..n |-> CategoryOrOther(transactions[i])]
        \* the keys of category_totals, in the order of their first row
        first == {i \in 1..n : \A j \in 1..(i - 1) : cat[j] # cat[i]}
        key == [k \in 1..Cardinality(first) |->
                   cat[CHOOSE i \in first : Cardinality({j \in first : j < i}) = k - 1]]
        Of(c) == LET Has(t) == CategoryOrOther(t) = c IN SelectSeq(transactions, Has)
        total == SumAmounts(transactions)
        entries == [k \in 1..Len(key) |->
                       [category |-> key[k],
                        amount |-> SumAmounts(Of(key[k])),
                        count |-> Len(Of(key[k]))]]
        top == Slice(SortCategories(entries), limit)
    IN  [period |-> days,
         total_analyzed |-> total,
         categories |->
             [k \in 1..Len(top) |->
                 [category |-> top[k].category,
                  amount |-> top[k].amount,
                  percentage |-> IF total > 0
                                 THEN RoundDiv(top[k].amount * 1000, total) ELSE 0,
                  count |-> top[k].count]]]

\* Transaction.category.ilike(f"%{category}%"): the category contains the
\* text, letter case aside; a NULL category matches nothing
ILike(category, text) ==
    CASE text = "din" -> category = "Dining"
      [] text = "o" -> category \in {"Shopping", "Other"}
      [] OTHER -> FALSE

\* line 283
RECENT_CAP == 50
CapLimit(limit) == IF limit < RECENT_CAP THEN limit ELSE RECENT_CAP

\* ORDER BY date DESC: later dates first, rows of one date in table order
OrderByDateDesc(rows) ==
    LET n == Len(rows)
        place == [i \in 1..n |->
                     1 + Cardinality({j \in 1..n : DateLess(rows[i].date, rows[j].date)})
                       + Cardinality({j \in 1..(i - 1) : rows[j].date = rows[i].date})]
    IN  [k \in 1..n |-> rows[CHOOSE i \in 1..n : place[i] = k]]

\* LIMIT n of SQLite, the database of the application: a negative n is no
\* limit at all
SqlLimit(rows, n) ==
    IF n < 0 \/ n >= Len(rows) THEN rows ELSE SubSeq(rows, 1, n)

\* get_recent_transactions(limit, category) on the table rows
get_recent_transactions(limit, category, rows) ==
    LET Matches(t) == category = None \/ category = "" \/ ILike(t.category, category)
        selected == SelectSeq(rows, Matches)
        transactions == SqlLimit(OrderByDateDesc(selected), CapLimit(limit))
    IN  [count |-> Len(transactions),
         filter |-> IF category = None \/ category = "" THEN "All categories"
                    ELSE "Category: " \o category,
         transactions |->
             [k \in 1..Len(transactions) |->
                 [txn_id |-> transactions[k].txn_id,
                  amount |-> AmountOrZero(transactions[k]),
                  type |-> transactions[k].type,
                  date |-> transactions[k].date,
                  category |-> CategoryOrOther(transactions[k])]]]

-----------------------------------------------------------------------------
(* A direct tool execution: /api/mcp/execute calls execute_tool, and the   *)
(* tool functions are called with the table as it is                       *)

DEFAULT_PERCENTILE == 95
Percentiles == {0, 50, DEFAULT_PERCENTILE, 100, 150}
ToolNameInputs == ToolNameSet \cup {"run_sql", ""}
ArgumentInputs ==
    { EmptyDict, [days |-> JInt(30)], [days |-> JStr("thirty")],
      [bogus |-> JInt(1)], [year |-> JInt(0)], [limit |-> JInt(5)] }

NoCall == [op |-> None, name |-> None, arguments |-> EmptyDict]
NoOut == [success |-> FALSE]
NoThrow == [raised |-> None, ran |-> FALSE, text |-> None]
IdleTools ==
    /\ registry = MCP_TOOLS
    /\ tpc = "idle"
    /\ tcall = NoCall
    /\ tout = NoOut
    /\ thrown = NoThrow

ExecuteTool(tool_name, arguments) ==
    /\ tpc = "idle"
    /\ tcall' = [op |-> "execute_tool", name |-> tool_name, arguments |-> arguments]
    /\ tout' = execute_tool(tool_name, arguments)
    /\ IF tool_name \in ToolNameSet
       THEN LET out == CallTool(tool_name, arguments)
            IN  /\ thrown' = [raised |-> out.raised, ran |-> out.ran,
                              text |-> IF out.raised = None THEN None ELSE out.text]
                /\ store' = IF out.ran THEN StoreAfter(tool_name, arguments, store)
                            ELSE store
       ELSE /\ thrown' = NoThrow
            /\ store' = store
    /\ registry' = registry
    /\ tpc' = "returned"
    /\ UNCHANGED <<provider, api_key_len>>
    /\ UNCHANGED routerVars
    /\ UNCHANGED chatVars
    /\ UNCHANGED concVars

DetectAnomalies(threshold_percentile) ==
    /\ tpc = "idle"
    /\ tcall' = [op |-> "detect_anomalies", name |-> "detect_anomalies",
                 arguments |-> [threshold_percentile |-> JInt(threshold_percentile)]]
    /\ tout' = detect_anomalies(threshold_percentile, store)
    /\ thrown' = [raised |-> None, ran |-> TRUE, text |-> None]
    /\ store' = StoreAfter("detect_anomalies", tcall'.arguments, store)
    /\ registry' = registry
    /\ tpc' = "returned"
    /\ UNCHANGED <<provider, api_key_len>>
    /\ UNCHANGED routerVars
    /\ UNCHANGED chatVars
    /\ UNCHANGED concVars

\* the inputs of the reporting tools
MonthInputs == { NoArg, JInt(3), JStr("3"), JStr("March"), JInt(12), JStr("12"),
                 JInt(13), JStr("Smarch") }
YearInputs == { NoArg, JInt(2025), JInt(2024), JInt(0) }
LimitInputs == { -1, 0, 1, 2, 5, 10, RECENT_CAP, 1000 }
DayInputs == { 0, 30, 400 }
CategoryInputs == { None, "", "din", "o", "xyz" }

MonthlySummary(month, year, now) ==
    /\ tpc = "idle"
    /\ tcall' = [op |-> "get_monthly_spending_summary",
                 name |-> "get_monthly_spending_summary",
                 arguments |-> [month |-> month, year |-> year], now |-> now]
    /\ LET out == get_monthly_spending_summary(month, year, now, store)
       IN  /\ tout' = IF out.raised = None THEN out.value ELSE NoOut
           /\ thrown' = [raised |-> out.raised, ran |-> TRUE, text |-> None]
    /\ store' = StoreAfter("get_monthly_spending_summary", tcall'.arguments, store)
    /\ registry' = registry
    /\ tpc' = "returned"
    /\ UNCHANGED <<provider, api_key_len>>
    /\ UNCHANGED routerVars
    /\ UNCHANGED chatVars
    /\ UNCHANGED concVars

TopCategories(limit, days, now) ==
    /\ tpc = "idle"
    /\ tcall' = [op |-> "get_top_spending_categories",
                 name |-> "get_top_spending_categories",
                 arguments |-> [limit |-> limit, days |-> days], now |-> now]
    /\ tout' = get_top_spending_categories(limit, days, now, store)
    /\ thrown' = [raised |-> None, ran |-> TRUE, text |-> None]
    /\ store' = StoreAfter("get_top_spending_categories", tcall'.arguments, store)
    /\ registry' = registry
    /\ tpc' = "returned"
    /\ UNCHANGED <<provider, api_key_len>>
    /\ UNCHANGED routerVars
    /\ UNCHANGED chatVars
    /\ UNCHANGED concVars

RecentTransactions(limit, category) ==
    /\ tpc = "idle"
    /\ tcall' = [op |-> "get_recent_transactions",
                 name |-> "get_recent_transactions",
                 arguments |-> [limit |-> limit, category |-> category]]
    /\ tout' = get_recent_transactions(limit, category, store)
    /\ thrown' = [raised |-> None, ran |-> TRUE, text |-> None]
    /\ store' = StoreAfter("get_recent_transactions", tcall'.arguments, store)
    /\ registry' = registry
    /\ tpc' = "returned"
    /\ UNCHANGED <<provider, api_key_len>>
    /\ UNCHANGED routerVars
    /\ UNCHANGED chatVars
    /\ UNCHANGED concVars

ToolReturn ==
    /\ tpc = "returned"
    /\ tpc' = "idle"
    /\ tcall' = NoCall
    /\ tout' = NoOut
    /\ thrown' = NoThrow
    /\ UNCHANGED <<store, registry>>
    /\ UNCHANGED <<provider, api_key_len>>
    /\ UNCHANGED routerVars
    /\ UNCHANGED chatVars
    /\ UNCHANGED concVars

-----------------------------------------------------------------------------
(* modules/mcp/server.py: MCPServer.chat                                   *)

max_iterations == 5

CONNECT_TROUBLE == "I'm having trouble connecting to the AI service. Please try again."
NO_RESPONSE == "I couldn't generate a response."
PROCESSING_ERROR == "An error occurred while processing your request."

NoResponse == SetProviderUsed(Failure(None), None)
NoResult == [success |-> FALSE, response |-> None, tools_used |-> <<>>,
             provider_used |-> None, error |-> None]

AssistantMessage(tool_call) ==
    [role |-> "assistant", content |-> None, tool_calls |-> <<tool_call>>]
ToolMessage_ByName(id, tool_result) ==
    [role |-> "tool", tool_call_id |-> tool_result.tool,
     content |-> json_dumps(IF tool_result.success THEN tool_result.result
                            ELSE [error |-> tool_result.error])]
ToolMessage(id, tool_result) ==
    [role |-> "tool", tool_call_id |-> id,
     content |-> json_dumps(IF tool_result.success THEN tool_result.result
                            ELSE [error |-> tool_result.error])]

\* lines 219-222: json.loads of the arguments string, {} when it is no JSON
ParseArguments_Reject(text) ==
    LET parsed == json_loads(text)
    IN  IF parsed.ok THEN parsed.value ELSE [arguments |-> JStr(text)]
ParseArguments(text) ==
    LET parsed == json_loads(text)
    IN  IF parsed.ok THEN parsed.value ELSE EmptyDict

\* line 226: tools_used.append(tool_name)
RecordTool_Twice(used, tool_name) == Append(Append(used, tool_name), tool_name)
RecordTool_Unique(used, tool_name) ==
    IF \E i \in 1..Len(used) : used[i] = tool_name THEN used
    ELSE Append(used, tool_name)
RecordTool(used, tool_name) == Append(used, tool_name)

\* lines 229-238: the two messages.append of one executed tool call
AppendPair_Replace(msgs, tool_call, tool_result) ==
    SubSeq(msgs, 1, 2) \o <<AssistantMessage(tool_call),
                             ToolMessage(tool_call.id, tool_result)>>
AppendPair_SkipFailed(msgs, tool_call, tool_result) ==
    IF tool_result.success
    THEN msgs \o <<AssistantMessage(tool_call), ToolMessage(tool_call.id, tool_result)>>
    ELSE msgs
AppendPair(msgs, tool_call, tool_result) ==
    msgs \o <<AssistantMessage(tool_call), ToolMessage(tool_call.id, tool_result)>>

\* the except clause of chat
ChatError_NoTools(text, used, prov) ==
    [success |-> FALSE, response |-> PROCESSING_ERROR, tools_used |-> <<>>,
     provider_used |-> prov, error |-> text]
ChatError(text, used, prov) ==
    [success |-> FALSE, response |-> PROCESSING_ERROR, tools_used |-> used,
     provider_used |-> prov, error |-> text]

\* The backends one router call can reach under the configuration: a backend
\* that is not contacted is left at Unreached.
Unreached == [kind |-> "connection"]
ReachedEnvs ==
    IF provider = "local"
    THEN [probe : {Unreached}, local : Posts, groq : {Unreached}]
    ELSE IF provider = "groq"
    THEN [probe : {Unreached}, local : {Unreached},
          groq : IF api_key_len = 0 THEN {Unreached} ELSE Posts]
    ELSE LET groqPosts == IF GroqIsAvailable(api_key_len) THEN Posts ELSE {Unreached}
         IN  [probe : {p \in Probes : ~LocalIsAvailable(p)}, local : {Unreached},
              groq : groqPosts]
             \cup [probe : {p \in Probes : LocalIsAvailable(p)},
                   local : {Payload(m) : m \in ModelMessages}, groq : {Unreached}]
             \cup [probe : {p \in Probes : LocalIsAvailable(p)},
                   local : FailedPosts, groq : groqPosts]

\* lines 172-205: build the messages, first router call
ChatStart(text, e) ==
    /\ pc = "idle"
    /\ LET msgs == <<SystemMessage, UserMessage(text)>>
           r == RouterGenerate(provider, api_key_len, msgs, get_available_tools, e).result
       IN  /\ user_message' = text
           /\ messages' = msgs
           /\ sent' = <<[messages |-> msgs, tools |-> get_available_tools,
                         n_executed |-> 0]>>
           /\ response' = r
           /\ provider_used' = r.provider_used
           /\ IF ~r.success
              THEN /\ chat_result' = [success |-> FALSE, response |-> CONNECT_TROUBLE,
                                      tools_used |-> <<>>,
                                      provider_used |-> r.provider_used,
                                      error |-> r.error]
                   /\ pc' = "done"
              ELSE /\ chat_result' = chat_result
                   /\ pc' = "loop"
    /\ UNCHANGED <<tools_used, iteration, requested, executed, rounds>>
    /\ UNCHANGED <<provider, api_key_len>>
    /\ UNCHANGED routerVars
    /\ UNCHANGED toolVars
    /\ UNCHANGED concVars

\* lines 215-238: the for loop over tool_calls, from position k on.  raised
\* is the text of the KeyError that ended it, or None.
RECURSIVE ForEachToolCall(_, _, _, _, _)
ForEachToolCall(tool_calls, k, msgs, used, execd) ==
    IF k > Len(tool_calls)
    THEN [messages |-> msgs, tools_used |-> used, executed |-> execd, raised |-> None]
    ELSE
      LET tool_call == tool_calls[k]
      IN  IF "name" \notin DOMAIN tool_call.function
          THEN \* KeyError at line 216
               [messages |-> msgs, tools_used |-> used, executed |-> execd,
                raised |-> "'name'"]
          ELSE
            LET tool_name == tool_call.function.name
                arguments == ParseArguments(tool_call.function.arguments)
                tool_result == execute_tool(tool_name, arguments)
            IN  IF "id" \notin DOMAIN tool_call
                THEN \* KeyError at line 236, after the append of line 229
                     [messages |-> Append(msgs, AssistantMessage(tool_call)),
                      tools_used |-> RecordTool(used, tool_name),
                      executed |-> Append(execd, tool_call),
                      raised |-> "'id'"]
                ELSE ForEachToolCall(tool_calls, k + 1,
                        AppendPair(msgs, tool_call, tool_result),
                        RecordTool(used, tool_name),
                        Append(execd, tool_call))

\* line 211: the while test
LoopTest_IgnoreReply == iteration < max_iterations
LoopTest == Truthy(response.tool_calls) /\ iteration < max_iterations

\* line 212: iteration += 1
NextIteration_Stuck(i) == i
NextIteration(i) == i + 1

\* lines 211-245: one pass of the while loop: the tool calls of the reply,
\* then the next router call
Round ==
    /\ pc = "loop"
    /\ LoopTest
    /\ iteration' = NextIteration(iteration)
    /\ rounds' = rounds + 1
    /\ requested' = requested \o response.tool_calls.list
    /\ LET done == ForEachToolCall(response.tool_calls.list, 1, messages,
                                   tools_used, executed)
       IN  /\ messages' = done.messages
           /\ tools_used' = done.tools_used
           /\ executed' = done.executed
           /\ IF done.raised # None
              THEN /\ chat_result' = ChatError(done.raised, done.tools_used, provider_used)
                   /\ pc' = "done"
                   /\ UNCHANGED <<response, provider_used, sent>>
              ELSE \E e \in ReachedEnvs :
                     LET r == RouterGenerate(provider, api_key_len, done.messages,
                                             get_available_tools, e).result
                     IN  /\ response' = r
                         /\ provider_used' = r.provider_used
                         /\ sent' = Append(sent, [messages |-> done.messages,
                                                  tools |-> get_available_tools,
                                                  n_executed |-> Len(done.executed)])
                         /\ pc' = IF ~r.success THEN "final" ELSE "loop"
                         /\ chat_result' = chat_result
    /\ UNCHANGED user_message
    /\ UNCHANGED <<provider, api_key_len>>
    /\ UNCHANGED routerVars
    /\ UNCHANGED toolVars
    /\ UNCHANGED concVars

\* lines 248-258: the final response, after the loop ended or broke
Finish ==
    /\ \/ pc = "final"
       \/ pc = "loop" /\ ~LoopTest
    /\ chat_result' =
          [success |-> TRUE,
           response |-> IF "content" \in DOMAIN response THEN response.content
                        ELSE NO_RESPONSE,
           tools_used |-> tools_used,
           provider_used |-> provider_used,
           error |-> None]
    /\ pc' = "done"
    /\ UNCHANGED <<user_message, messages, tools_used, provider_used, response,
                   iteration, sent, requested, executed, rounds>>
    /\ UNCHANGED <<provider, api_key_len>>
    /\ UNCHANGED routerVars
    /\ UNCHANGED toolVars
    /\ UNCHANGED concVars

-----------------------------------------------------------------------------
(* Chat calls running at the same time.  The routes call chat on the one   *)
(* mcp_server of the process; the requests' threads share the server, the  *)
(* router and the table, which chat only reads, and every call has its own *)
(* local variables.  A step is one line of chat that calls into the shared *)
(* objects: a router call, the while test, one pass of the for loop.       *)

Callers == {1, 2}
\* the model stops asking for tools after this many rounds of a chat
MaxConcRounds == 1

\* what each caller asks
Question ==
    [p \in Callers |->
        IF p = 1 THEN "What did I spend on Dining in the last 30 days?"
        ELSE "Any unusual transactions?"]

ConcCallLists == { <<tcTop>>, <<tcUnknown, tcRecent>>, <<tcBogus, tcNoId>> }
ConcPayloads ==
    { Payload([content |-> ANSWER]) }
    \cup { Payload([content |-> None, tool_calls |-> l]) : l \in ConcCallLists }
ConcPosts == ConcPayloads \cup { [kind |-> "timeout"] }
\* the backends one router call reaches, as in ReachedEnvs, with these posts
\* and a Groq key configured
ConcEnvs ==
    IF provider = "local"
    THEN [probe : {Unreached}, local : ConcPosts, groq : {Unreached}]
    ELSE IF provider = "groq"
    THEN [probe : {Unreached}, local : {Unreached}, groq : ConcPosts]
    ELSE [probe : {[kind |-> "http", status |-> 503]}, local : {Unreached},
          groq : ConcPosts]
         \cup [probe : {[kind |-> "http", status |-> HTTP_OK]},
               local : ConcPayloads, groq : {Unreached}]
         \cup [probe : {[kind |-> "http", status |-> HTTP_OK]},
               local : ConcPosts \ ConcPayloads, groq : ConcPosts]

\* where the local variables of caller p's chat call live: in the call's own
\* frame
Frame_OnServer(p) == 1
Frame(p) == p

NoLocals ==
    [pc |-> "idle", user_message |-> None, messages |-> <<>>, tools_used |-> <<>>,
     provider_used |-> None, response |-> NoResponse, iteration |-> 0, k |-> 0]
NoHist ==
    [asked |-> None, sent |-> <<>>, replies |-> <<>>, result |-> NoResult,
     returned |-> FALSE]

\* lines 167-192: tools_used, provider_used and messages of a new call
CStart(p, text) ==
    /\ chats[Frame(p)].pc = "idle"
    /\ chats' = [chats EXCEPT ![Frame(p)] =
                    [NoLocals EXCEPT !.pc = "call0",
                                     !.user_message = text,
                                     !.messages = <<SystemMessage, UserMessage(text)>>]]
    /\ hist' = [hist EXCEPT ![p] = [NoHist EXCEPT !.asked = text]]
    /\ UNCHANGED <<provider, api_key_len>>
    /\ UNCHANGED routerVars
    /\ UNCHANGED chatVars
    /\ UNCHANGED toolVars

\* lines 195-205 and 241-245: a router call with the call's messages
CGenerate(p, e) ==
    LET c == chats[Frame(p)]
        r == RouterGenerate(provider, api_key_len, c.messages,
                            get_available_tools, e).result
    IN  /\ c.pc \in {"call0", "call"}
        /\ Truthy(r.tool_calls) => c.iteration < MaxConcRounds
        /\ chats' = [chats EXCEPT ![Frame(p)] =
                        [c EXCEPT !.response = r,
                                  !.provider_used = r.provider_used,
                                  !.pc = IF r.success THEN "loop"
                                         ELSE IF c.pc = "call0" THEN "done"
                                         ELSE "final"]]
        /\ hist' = [hist EXCEPT
                      ![p].sent = Append(@, c.messages),
                      ![p].replies = Append(@, r),
                      ![p].result =
                          IF ~r.success /\ c.pc = "call0"
                          THEN [success |-> FALSE, response |-> CONNECT_TROUBLE,
                                tools_used |-> <<>>,
                                provider_used |-> r.provider_used,
                                error |-> r.error]
                          ELSE @,
                      ![p].returned = ~r.success /\ c.pc = "call0"]
        /\ UNCHANGED <<provider, api_key_len>>
        /\ UNCHANGED routerVars
        /\ UNCHANGED chatVars
        /\ UNCHANGED toolVars

\* lines 211-213: the while test holds, a round starts
CEnterRound(p) ==
    LET c == chats[Frame(p)]
    IN  /\ c.pc = "loop"
        /\ Truthy(c.response.tool_calls) /\ c.iteration < max_iterations
        /\ chats' = [chats EXCEPT ![Frame(p)] =
                        [c EXCEPT !.iteration = NextIteration(@),
                                  !.k = 1,
                                  !.pc = "for"]]
        /\ UNCHANGED hist
        /\ UNCHANGED <<provider, api_key_len>>
        /\ UNCHANGED routerVars
        /\ UNCHANGED chatVars
        /\ UNCHANGED toolVars

\* lines 215-238: one pass of the for loop, the k-th tool call of the reply
CToolCall(p) ==
    LET c == chats[Frame(p)]
        tool_calls == c.response.tool_calls.list
    IN  /\ c.pc = "for"
        /\ c.k <= Len(tool_calls)
        /\ LET done == ForEachToolCall(<<tool_calls[c.k]>>, 1, c.messages,
                                       c.tools_used, <<>>)
           IN  IF done.raised # None
               THEN /\ chats' = [chats EXCEPT ![Frame(p)] =
                                    [c EXCEPT !.messages = done.messages,
                                              !.tools_used = done.tools_used,
                                              !.pc = "done"]]
                    /\ hist' = [hist EXCEPT
                                  ![p].result = ChatError(done.raised, done.tools_used,
                                                          c.provider_used),
                                  ![p].returned = TRUE]
               ELSE /\ chats' = [chats EXCEPT ![Frame(p)] =
                                    [c EXCEPT !.messages = done.messages,
                                              !.tools_used = done.tools_used,
                                              !.k = c.k + 1,
                                              !.pc = IF c.k = Len(tool_calls)
                                                     THEN "call" ELSE "for"]]
                    /\ UNCHANGED hist
        /\ UNCHANGED <<provider, api_key_len>>
        /\ UNCHANGED routerVars
        /\ UNCHANGED chatVars
        /\ UNCHANGED toolVars

\* lines 248-258: the while test fails or the loop broke; chat returns
CFinish(p) ==
    LET c == chats[Frame(p)]
    IN  /\ \/ c.pc = "final"
           \/ /\ c.pc = "loop"
              /\ ~(Truthy(c.response.tool_calls) /\ c.iteration < max_iterations)
        /\ chats' = [chats EXCEPT ![Frame(p)] = [c EXCEPT !.pc = "done"]]
        /\ hist' = [hist EXCEPT
                      ![p].result =
                          [success |-> TRUE,
                           response |-> IF "content" \in DOMAIN c.response
                                        THEN c.response.content ELSE NO_RESPONSE,
                           tools_used |-> c.tools_used,
                           provider_used |-> c.provider_used,
                           error |-> None],
                      ![p].returned = TRUE]
        /\ UNCHANGED <<provider, api_key_len>>
        /\ UNCHANGED routerVars
        /\ UNCHANGED chatVars
        /\ UNCHANGED toolVars

\* the route has used the result; the call's local variables are gone
CReturn(p) ==
    /\ chats[Frame(p)].pc = "done"
    /\ hist[p].returned
    /\ chats' = [chats EXCEPT ![Frame(p)] = NoLocals]
    /\ hist' = [hist EXCEPT ![p] = NoHist]
    /\ UNCHANGED <<provider, api_key_len>>
    /\ UNCHANGED routerVars
    /\ UNCHANGED chatVars
    /\ UNCHANGED toolVars

-----------------------------------------------------------------------------
(* Specifications *)

Init ==
    /\ provider \in Policies
    /\ api_key_len \in KeyLens
    /\ rpc = "idle"
    /\ req = NoReq
    /\ env = NoEnv
    /\ routed = NoRouted
    /\ pc = "idle"
    /\ user_message = None
    /\ messages = <<>>
    /\ tools_used = <<>>
    /\ provider_used = None
    /\ response = NoResponse
    /\ iteration = 0
    /\ chat_result = NoResult
    /\ sent = <<>>
    /\ requested = <<>>
    /\ executed = <<>>
    /\ rounds = 0
    /\ store = SampleStore
    /\ IdleTools
    /\ chats = [p \in Callers |-> NoLocals]
    /\ hist = [p \in Callers |-> NoHist]

\* one chat request
Next ==
    \/ pc = "idle" /\ \E text \in UserMessages, e \in ReachedEnvs : ChatStart(text, e)
    \/ Round
    \/ Finish

Spec == Init /\ [][Next]_vars

\* the chat runs to its return: no step of it waits for anything but the
\* backends, whose calls are bounded by the adapters' timeouts
FairSpec == Spec /\ WF_vars(Next)

\* direct calls of the router, under every combination of backend outcomes
RouterNext ==
    \/ rpc = "idle" /\ \E msgs \in SimpleRequests,
                           tools \in {NO_TOOLS, get_available_tools},
                           e \in Envs : generate(msgs, tools, e)
    \/ RouterReturn

RouterSpec == Init /\ [][RouterNext]_vars

\* direct tool executions, under every table content
ToolInit ==
    /\ provider = "auto"
    /\ api_key_len = 0
    /\ rpc = "idle"
    /\ req = NoReq
    /\ env = NoEnv
    /\ routed = NoRouted
    /\ pc = "idle"
    /\ user_message = None
    /\ messages = <<>>
    /\ tools_used = <<>>
    /\ provider_used = None
    /\ response = NoResponse
    /\ iteration = 0
    /\ chat_result = NoResult
    /\ sent = <<>>
    /\ requested = <<>>
    /\ executed = <<>>
    /\ rounds = 0
    /\ store \in Stores
    /\ IdleTools
    /\ chats = [p \in Callers |-> NoLocals]
    /\ hist = [p \in Callers |-> NoHist]

ToolNext ==
    \/ tpc = "idle" /\ \E tool_name \in ToolNameInputs, arguments \in ArgumentInputs :
                          ExecuteTool(tool_name, arguments)
    \/ tpc = "idle" /\ \E p \in Percentiles : DetectAnomalies(p)
    \/ ToolReturn

ToolSpec == ToolInit /\ [][ToolNext]_vars

\* calls of the reporting tools, under every ledger
ReportInit ==
    /\ store \in Ledgers
    /\ provider = "auto"
    /\ api_key_len = 0
    /\ rpc = "idle"
    /\ req = NoReq
    /\ env = NoEnv
    /\ routed = NoRouted
    /\ pc = "idle"
    /\ user_message = None
    /\ messages = <<>>
    /\ tools_used = <<>>
    /\ provider_used = None
    /\ response = NoResponse
    /\ iteration = 0
    /\ chat_result = NoResult
    /\ sent = <<>>
    /\ requested = <<>>
    /\ executed = <<>>
    /\ rounds = 0
    /\ IdleTools
    /\ chats = [p \in Callers |-> NoLocals]
    /\ hist = [p \in Callers |-> NoHist]

ReportNext ==
    \/ tpc = "idle" /\ \E month \in MonthInputs, year \in YearInputs, now \in Nows :
                          MonthlySummary(month, year, now)
    \/ tpc = "idle" /\ \E limit \in LimitInputs, days \in DayInputs, now \in Nows :
                          TopCategories(limit, days, now)
    \/ tpc = "idle" /\ \E limit \in LimitInputs, category \in CategoryInputs :
                          RecentTransactions(limit, category)
    \/ ToolReturn

ReportSpec == ReportInit /\ [][ReportNext]_vars

\* two callers of chat at the same time, their steps in any order
ConcNext ==
    \/ \E p \in Callers : CStart(p, Question[p])
    \/ \E p \in Callers, e \in ConcEnvs : CGenerate(p, e)
    \/ \E p \in Callers : CEnterRound(p)
    \/ \E p \in Callers : CToolCall(p)
    \/ \E p \in Callers : CFinish(p)
    \/ \E p \in Callers : CReturn(p)

\* the server as constructed, with a Groq key configured
ConcInit == Init /\ GroqIsAvailable(api_key_len)

ConcSpec == ConcInit /\ [][ConcNext]_vars

-----------------------------------------------------------------------------
(* Properties of LLMRouter.generate, checked under RouterSpec: the state   *)
(* after a call holds its arguments (req), what the backends did (env),    *)
(* and what it returned and which adapters it called (routed).             *)

LocalResult == LocalGenerate(req.messages, req.tools, env.local)
GroqResult == GroqGenerate(req.messages, req.tools, api_key_len, env.groq)
LocalUp == LocalIsAvailable(env.probe)
GroqUp == GroqIsAvailable(api_key_len)
CallsTo(name) == { i \in 1..Len(routed.calls) : routed.calls[i].adapter = name }
SameArguments(call) == call.messages = req.messages /\ call.tools = req.tools

\* C4: in auto policy, when local is unavailable or its generate fails, and
\* cloud is unavailable or its generate fails, generate returns the unified
\* failure: success=false, the "no provider" error, provider_used=null.
C4_BothDownUnified ==
    (/\ rpc = "returned"
     /\ provider = "auto"
     /\ ~LocalUp \/ ~LocalResult.success
     /\ ~GroqUp \/ ~GroqResult.success)
    => /\ routed.result.success = FALSE
       /\ routed.result.error = NO_LLM
       /\ routed.result.provider_used = None

\* C5: in auto policy with local available: if local's generate fails in any
\* way and cloud is configured, cloud's generate is called exactly once, with
\* the same messages and tools, and its outcome is what generate returns; if
\* local's generate succeeds, its result is returned labelled "local" and
\* cloud is not called.
C5_FallbackOnAnyFailure ==
    (rpc = "returned" /\ provider = "auto" /\ LocalUp)
    => IF LocalResult.success
       THEN /\ routed.result = SetProviderUsed(LocalResult, "local")
            /\ CallsTo("groq") = {}
       ELSE GroqUp =>
            /\ Cardinality(CallsTo("groq")) = 1
            /\ \A i \in CallsTo("groq") : SameArguments(routed.calls[i])
            /\ routed.result = SetProviderUsed(GroqResult, "groq")
C5_Witness ==
    /\ rpc = "returned" /\ provider = "auto" /\ LocalUp
    /\ env.local.kind = "http" /\ env.local.status = HTTP_RATE_LIMITED
    /\ routed.result.success /\ routed.result.provider_used = "groq"
    /\ Truthy(routed.result.tool_calls)
    /\ req.tools = get_available_tools

\* C6: within one generate call, under every policy, each adapter's generate
\* is called at most once, local is never called after cloud, and so at most
\* two adapter calls are made.
C6_SingleHop ==
    rpc = "returned"
    => /\ Cardinality(CallsTo("local")) <= 1
       /\ Cardinality(CallsTo("groq")) <= 1
       /\ \A i \in CallsTo("groq"), j \in CallsTo("local") : j < i
       /\ Len(routed.calls) <= 2
C6_Witness ==
    /\ rpc = "returned"
    /\ Len(routed.calls) = 2
    /\ ~routed.result.success

\* C7: in auto policy, when local reports unavailable and cloud is
\* configured, local's generate is never called and generate returns cloud's
\* response, labelled with the cloud adapter's name.
C7_LocalDownUsesCloud ==
    (rpc = "returned" /\ provider = "auto" /\ ~LocalUp /\ GroqUp)
    => /\ CallsTo("local") = {}
       /\ routed.result = SetProviderUsed(GroqResult, "groq")
       /\ routed.result.provider_used = "groq"
C7_Witness ==
    /\ rpc = "returned" /\ provider = "auto" /\ ~LocalUp /\ GroqUp
    /\ routed.result.success
    /\ routed.result.content = ANSWER
    /\ env.local.kind = "http" /\ env.local.status = HTTP_OK

\* C8: in auto policy, when both adapters report unavailable, neither
\* adapter's generate is called and generate returns success=false,
\* provider_used, content and tool_calls null, and the "no provider" error.
C8_BothUnavailable ==
    (rpc = "returned" /\ provider = "auto" /\ ~LocalUp /\ ~GroqUp)
    => /\ routed.calls = <<>>
       /\ routed.result.success = FALSE
       /\ routed.result.provider_used = None
       /\ routed.result.content = None
       /\ routed.result.tool_calls = NullCalls
       /\ routed.result.error = NO_LLM
C8_Witness ==
    /\ rpc = "returned" /\ provider = "auto" /\ ~LocalUp /\ ~GroqUp
    /\ api_key_len \in 1..MIN_KEY_LEN
    /\ env.groq.kind = "http" /\ env.groq.status = HTTP_OK

\* C9: under a fixed policy only the configured adapter is used: fixed-local
\* returns local's result, success or failure, changed only by
\* provider_used="local", and never calls cloud; fixed-cloud returns cloud's
\* result with the cloud label and never calls local.
C9_FixedPolicy ==
    rpc = "returned"
    => /\ provider = "local"
          => /\ routed.result = SetProviderUsed(LocalResult, "local")
             /\ [k \in DOMAIN LocalResult |-> routed.result[k]] = LocalResult
             /\ CallsTo("groq") = {}
             /\ Len(routed.calls) = 1
       /\ provider = "groq"
          => /\ routed.result = SetProviderUsed(GroqResult, "groq")
             /\ CallsTo("local") = {}
             /\ Len(routed.calls) = 1
C9_Witness ==
    /\ rpc = "returned" /\ provider = "local"
    /\ ~routed.result.success
    /\ GroqUp /\ env.groq.kind = "http" /\ env.groq.status = HTTP_OK

-----------------------------------------------------------------------------
(* Properties of MCPServer.chat, checked under Spec and FairSpec           *)

Called == Len(sent) > 0
ExecutedNames == [i \in 1..Len(executed) |-> executed[i].function.name]
IsPrefix(s, t) == Len(s) <= Len(t) /\ SubSeq(t, 1, Len(s)) = s
\* chat returned from the try block, not from the except clause
ReturnedNormally == pc = "done" /\ chat_result.response # PROCESSING_ERROR

\* C1: whenever a provider call of chat returns success=false, the first one
\* or one after a tool round, chat aborts at once: nothing is called or
\* executed afterwards, and chat returns success=false with the generic
\* failure message, the provider's error, and the tools executed so far.
C1_ProviderFailureAborts ==
    (Called /\ ~response.success)
    => /\ pc \in {"final", "done"}
       /\ pc = "done"
          => /\ chat_result.success = FALSE
             /\ chat_result.response = CONNECT_TROUBLE
             /\ chat_result.error = response.error
             /\ chat_result.tools_used = ExecutedNames

\* C2: chat terminates whatever the provider answers; the iteration counter
\* rises by one per tool-call round, at most 5 rounds run (exactly 5 when the
\* model asks for tools on every turn), and at most 6 provider calls are made.
C2_Bounded ==
    /\ iteration = rounds
    /\ rounds <= max_iterations
    /\ Len(sent) <= max_iterations + 1
    /\ Called /\ pc # "done" => Len(sent) = rounds + 1
    /\ (ReturnedNormally /\ Truthy(response.tool_calls))
       => rounds = max_iterations /\ Len(sent) = max_iterations + 1
C2_Terminates == []C2_Bounded /\ <>(pc = "done")
C2_Witness ==
    /\ ReturnedNormally
    /\ Truthy(response.tool_calls)
    /\ rounds = max_iterations
    /\ Len(sent) = max_iterations + 1
    /\ Len(tools_used) >= max_iterations

\* C3: when chat stops at the cap of 5 rounds with the model still asking
\* for tools, the response it returns is non-empty: the last text content, or
\* the generic fallback message when the last reply carries no text.
C3_CapResponseNonEmpty ==
    (ReturnedNormally /\ rounds = max_iterations /\ Truthy(response.tool_calls))
    => /\ chat_result.response \notin {None, ""}
       /\ chat_result.response =
             IF response.content \in {None, ""} THEN NO_RESPONSE
             ELSE response.content

\* the messages an executed tool call must leave in the sequence
ExpectedAssistant(tool_call) ==
    [role |-> "assistant", content |-> None, tool_calls |-> <<tool_call>>]
ExpectedTool(tool_call) ==
    LET parsed == json_loads(tool_call.function.arguments)
        out == execute_tool(tool_call.function.name,
                            IF parsed.ok THEN parsed.value ELSE EmptyDict)
    IN  [role |-> "tool", tool_call_id |-> tool_call.id,
         content |-> json_dumps(IF out.success THEN out.result
                                ELSE [error |-> out.error])]
\* the i-th executed call has its pair of messages in msgs
HasPair(msgs, i) ==
    /\ Len(msgs) >= 2 * i + 2
    /\ "id" \in DOMAIN executed[i]
    /\ msgs[2 * i + 1] = ExpectedAssistant(executed[i])
    /\ msgs[2 * i + 2] = ExpectedTool(executed[i])
\* calls run in the order listed, rounds in the order received
InOrder ==
    /\ IsPrefix(executed, requested)
    /\ (pc \in {"loop", "final"} \/ ReturnedNormally) => executed = requested
\* every router call after the first carries the pairs of the calls before it
SentComplete ==
    \A j \in 2..Len(sent) :
        /\ sent[j].n_executed > sent[j - 1].n_executed
        /\ Len(sent[j].messages) = 2 + 2 * sent[j].n_executed
        /\ \A i \in 1..sent[j].n_executed : HasPair(sent[j].messages, i)

\* C10 as claimed: tool calls run one at a time in the order listed, rounds in
\* the order received; each executed call appends an assistant message with
\* exactly that call and then exactly one tool message tagged with the call's
\* id, holding the JSON of its result or error; and every provider call after
\* the first carries the tool message of every call executed so far.
C10_EveryCallHasPair ==
    Called
    => /\ InOrder
       /\ Len(messages) = 2 + 2 * Len(executed)
       /\ \A i \in 1..Len(executed) : HasPair(messages, i)
       /\ SentComplete

\* C10 as amended: the same for every executed call that carries an id; an
\* executed call without an id appends its assistant message alone, and chat
\* returns its error result there, with no further provider call.
C10_CallsWithIdHavePair ==
    Called
    => /\ InOrder
       /\ \A i \in 1..Len(executed) :
             IF "id" \in DOMAIN executed[i]
             THEN HasPair(messages, i)
             ELSE /\ i = Len(executed)
                  /\ Len(messages) = 2 * i + 1
                  /\ messages[2 * i + 1] = ExpectedAssistant(executed[i])
                  /\ pc = "done" /\ ~chat_result.success
                  /\ sent[Len(sent)].n_executed < i
       /\ (\A i \in 1..Len(executed) : "id" \in DOMAIN executed[i])
          => Len(messages) = 2 + 2 * Len(executed)
       /\ SentComplete
C10_Witness ==
    /\ ReturnedNormally
    /\ rounds = 2
    /\ Len(sent) = 3
    /\ executed = <<tcUnknown, tcYear0, tcBogus, tcRecent, tcTop>>
    /\ chat_result.response = ANSWER

\* C11: the message sequence of a chat is append-only: the first provider
\* call gets [system prompt, user message], the sequence given to a provider
\* call is a prefix of the sequence given to every later one, and no step of
\* the chat changes, removes or reorders a message already in the sequence.
C11_SentGrows ==
    Called
    => /\ sent[1].messages = <<[role |-> "system", content |-> SYSTEM_PROMPT],
                               [role |-> "user", content |-> user_message]>>
       /\ \A j \in 1..Len(sent), k \in 1..Len(sent) :
             j <= k => IsPrefix(sent[j].messages, sent[k].messages)
       /\ IsPrefix(sent[Len(sent)].messages, messages)
C11_AppendOnly == []C11_SentGrows /\ [][IsPrefix(messages, messages')]_vars
C11_Witness ==
    /\ ReturnedNormally
    /\ Len(sent) = 3
    /\ Len(sent[2].messages) = 4
    /\ Len(sent[3].messages) = 12

\* C12: when a provider call succeeds and returns no tool calls, chat ends
\* there: no round is started and no provider is called afterwards, and chat
\* returns success=true, that call's content as the response, the adapter that
\* answered it as provider_used, and the tools executed before it as
\* tools_used (one tool round then plain text: the single tool requested).
C12_PlainReplyResult ==
    (ReturnedNormally /\ response.success /\ ~Truthy(response.tool_calls))
    => /\ chat_result.success = TRUE
       /\ chat_result.response = response.content
       /\ chat_result.provider_used = response.provider_used
       /\ chat_result.provider_used \in {"local", "groq"}
       /\ chat_result.tools_used = ExecutedNames
       /\ chat_result.error = None
       /\ Len(sent) = rounds + 1
C12_PlainReplyStep ==
    /\ pc # "done"
    /\ (pc = "loop" /\ ~Truthy(response.tool_calls))
       => (pc' = "done" /\ sent' = sent /\ executed' = executed
           /\ messages' = messages)
C12_PlainReplyEnds == []C12_PlainReplyResult /\ [][C12_PlainReplyStep]_vars
C12_Witness ==
    /\ ReturnedNormally
    /\ rounds = 1
    /\ executed = <<tcTop>>
    /\ chat_result.tools_used = <<"get_top_spending_categories">>
    /\ chat_result.success
    /\ chat_result.response = ANSWER
    /\ chat_result.provider_used = "groq"

WellFormed(tool_call) ==
    "id" \in DOMAIN tool_call /\ "name" \in DOMAIN tool_call.function
AllWellFormed == \A i \in 1..Len(requested) : WellFormed(requested[i])

\* C13 as claimed: for a model that requests at least one tool call on every
\* turn, the length of the tools_used chat returns equals the number of
\* tool-call rounds executed.
C13_LengthEqualsRounds ==
    (ReturnedNormally /\ Truthy(response.tool_calls))
    => Len(chat_result.tools_used) = rounds

\* C13 as amended: for a model that requests exactly one tool call, with an
\* id and a name, on every turn, tools_used has as many entries as rounds
\* were executed, during the chat and in the result it returns.
C13_OneCallPerRound ==
    (Called /\ AllWellFormed /\ Len(requested) = rounds)
    => /\ Len(tools_used) = rounds
       /\ pc = "done" => Len(chat_result.tools_used) = rounds
C13_Witness ==
    /\ ReturnedNormally
    /\ Truthy(response.tool_calls)
    /\ Len(requested) = max_iterations
    /\ Len(chat_result.tools_used) = max_iterations
    /\ rounds = max_iterations

\* what execute_tool returns for a tool call of a reply
ToolResult(tool_call) ==
    LET parsed == json_loads(tool_call.function.arguments)
    IN  execute_tool(tool_call.function.name,
                     IF parsed.ok THEN parsed.value ELSE EmptyDict)
FailedCalls == { i \in 1..Len(executed) : ~ToolResult(executed[i]).success }

\* C16: a failed tool execution in chat (unknown tool, invalid arguments, an
\* exception in the handler) never ends the conversation: its error is the
\* tool-role message of that call, the remaining calls of the round are
\* executed, and the provider is called again with the extended sequence.
C16_ToolFailureContinues ==
    (Called /\ AllWellFormed)
    => /\ executed = requested
       /\ chat_result.response # PROCESSING_ERROR
       /\ Len(sent) = rounds + 1
       /\ sent[Len(sent)].messages = messages
       /\ Len(messages) = 2 + 2 * Len(executed)
       /\ \A i \in FailedCalls :
             messages[2 * i + 2] =
                [role |-> "tool", tool_call_id |-> executed[i].id,
                 content |-> "{\"error\": \""
                             \o ToolResult(executed[i]).error \o "\"}"]
C16_Witness ==
    /\ pc = "loop"
    /\ rounds = 1
    /\ executed = <<tcUnknown, tcYear0, tcBogus, tcRecent>>
    /\ FailedCalls = {1, 2, 3}
    /\ Len(sent) = 2
    /\ response.success /\ response.content = ANSWER

-----------------------------------------------------------------------------
(* Properties of the adapters' generate, checked under RouterSpec, whose    *)
(* calls range over every backend outcome                                  *)

ResponseKeys == {"success", "content", "tool_calls", "error"}
WellFormedPayload(post) ==
    post.kind = "http" /\ post.status = HTTP_OK /\ "choices" \in DOMAIN post.body
ResponseContract(r, succeeds) ==
    /\ DOMAIN r = ResponseKeys
    /\ r.success = succeeds
    /\ r.success => r.error = None
    /\ ~r.success => /\ r.content = None
                     /\ r.tool_calls = NullCalls
                     /\ r.error # None /\ r.error # ""

\* C18: both adapters' generate return, for every backend outcome (HTTP 200
\* with a well-formed payload, another status, timeout, connection refused,
\* malformed payload), a response with the same four keys; success is true
\* exactly for HTTP 200 with a well-formed payload, and every failure has
\* content null, tool_calls null and a non-null error.
C18_AdaptersNeverRaise ==
    rpc = "returned"
    => /\ ResponseContract(LocalResult, WellFormedPayload(env.local))
       /\ ResponseContract(GroqResult,
                           api_key_len > 0 /\ WellFormedPayload(env.groq))
C18_Witness ==
    /\ rpc = "returned"
    /\ env.local.kind = "http" /\ env.local.status = HTTP_OK
    /\ ~WellFormedPayload(env.local)
    /\ env.groq.kind = "exception"
    /\ api_key_len > MIN_KEY_LEN
    /\ ~LocalResult.success /\ ~GroqResult.success

-----------------------------------------------------------------------------
(* Properties of execute_tool and of the tool functions, checked under     *)
(* ToolSpec: the state after a call holds the call (tcall), what the tool  *)
(* function did (thrown) and what the call returned (tout).                *)

Executed == tpc = "returned" /\ tcall.op = "execute_tool"

\* C14: for any exception raised inside a tool handler, the error that
\* execute_tool returns, and that chat puts into the tool-role message, is
\* the generic category label, with none of the exception's message text.
C14_GenericLabel ==
    (Executed /\ thrown.ran /\ thrown.raised # None)
    => /\ tout.success = FALSE
       /\ tout.error = "Tool execution failed: " \o thrown.raised
       /\ ToolMessage("call_1", tout).content =
             "{\"error\": \"Tool execution failed: " \o thrown.raised \o "\"}"

VALID_NAMES ==
    "'get_monthly_spending_summary', 'get_top_spending_categories', "
    \o "'detect_anomalies', 'get_recent_transactions'"

\* C15: for a tool name absent from the registry and any arguments,
\* execute_tool returns success=false with result null and the unknown-tool
\* error listing the valid names; no exception is raised, no tool function
\* runs, and the registry (and the table) stay as they were.
C15_UnknownToolResult ==
    (Executed /\ \A i \in 1..Len(MCP_TOOLS) : MCP_TOOLS[i].name # tcall.name)
    => /\ tout = [success |-> FALSE, tool |-> tcall.name, result |-> NullResult,
                  error |-> "Unknown tool: " \o tcall.name \o ". Available: ["
                            \o VALID_NAMES \o "]"]
       /\ thrown.raised = None
       /\ ~thrown.ran
       /\ registry = MCP_TOOLS
C15_UnknownToolStep ==
    (tcall'.op = "execute_tool"
     /\ \A i \in 1..Len(MCP_TOOLS) : MCP_TOOLS[i].name # tcall'.name)
    => (registry' = registry /\ store' = store)
C15_UnknownTool == []C15_UnknownToolResult /\ [][C15_UnknownToolStep]_vars
C15_Witness ==
    /\ Executed
    /\ tcall.name = "run_sql"
    /\ tcall.arguments = [bogus |-> JInt(1)]
    /\ ~tout.success

\* C19: tool execution is read-only: every execute_tool call and every tool
\* function, succeeding or failing, leaves the transactions table and the
\* registry exactly as they were.
C19_ReadOnly == [][store' = store /\ registry' = registry]_vars
C19_Witness ==
    /\ Executed
    /\ thrown.ran /\ thrown.raised = "ValueError"
    /\ ~tout.success
    /\ Len(store) = MaxStore
    /\ registry = MCP_TOOLS

Detected95 ==
    /\ tpc = "returned"
    /\ tcall.op = "detect_anomalies"
    /\ tcall.arguments.threshold_percentile.v = DEFAULT_PERCENTILE
DistinctIds(anomalies) ==
    \A i \in 1..Len(anomalies), j \in 1..Len(anomalies) :
        i # j => anomalies[i].txn_id # anomalies[j].txn_id

-----------------------------------------------------------------------------
(* Properties of chat calls running at the same time, checked under         *)
(* ConcSpec: hist[p] holds what caller p asked, the message sequences its   *)
(* chat gave to the router, the replies it got and what it returned.        *)

RECURSIVE Flatten(_)
Flatten(lists) ==
    IF lists = <<>> THEN <<>> ELSE Head(lists) \o Flatten(Tail(lists))
\* the tool calls of the first n replies caller p's chat received
CallsOf(p, n) ==
    Flatten([i \in 1..n |-> hist[p].replies[i].tool_calls.list])
RECURSIVE PairsOf(_)
PairsOf(calls) ==
    IF calls = <<>> THEN <<>>
    ELSE <<ExpectedAssistant(Head(calls)), ExpectedTool(Head(calls))>>
         \o PairsOf(Tail(calls))
NamesOf(calls) == [i \in 1..Len(calls) |-> calls[i].function.name]
OwnMessages(p) ==
    {SystemMessage, UserMessage(hist[p].asked)}
    \cup { ExpectedAssistant(CallsOf(p, Len(hist[p].replies))[i]) :
             i \in 1..Len(CallsOf(p, Len(hist[p].replies))) }
    \cup { ExpectedTool(CallsOf(p, Len(hist[p].replies))[i]) :
             i \in { j \in 1..Len(CallsOf(p, Len(hist[p].replies))) :
                       "id" \in DOMAIN CallsOf(p, Len(hist[p].replies))[j] } }

\* C17: two chat calls running at the same time do not affect each other:
\* under every interleaving, each call's first router call carries exactly
\* [system prompt, own user message], every later one carries these two and
\* the messages of the tool calls its own replies requested, in order; the
\* call's message sequence holds nothing else; and the tools_used it returns
\* lists the tool calls of its own replies only.
C17_NoCrossTalk ==
    \A p \in Callers :
        /\ \A i \in 1..Len(hist[p].sent) :
              hist[p].sent[i] = <<SystemMessage, UserMessage(hist[p].asked)>>
                                \o PairsOf(CallsOf(p, i - 1))
        /\ hist[p].asked # None =>
              /\ Len(chats[p].messages) >= 2
              /\ SubSeq(chats[p].messages, 1, 2)
                    = <<SystemMessage, UserMessage(hist[p].asked)>>
              /\ \A i \in 1..Len(chats[p].messages) :
                    chats[p].messages[i] \in OwnMessages(p)
              /\ IsPrefix(chats[p].tools_used,
                          NamesOf(CallsOf(p, Len(hist[p].replies))))
        /\ hist[p].asked = None => chats[p] = NoLocals
        /\ hist[p].returned =>
              /\ IsPrefix(hist[p].result.tools_used,
                          NamesOf(CallsOf(p, Len(hist[p].replies))))
              /\ hist[p].result.error = None =>
                    hist[p].result.tools_used
                       = NamesOf(CallsOf(p, Len(hist[p].replies) - 1))
C17_Witness ==
    /\ hist[1].asked # None /\ hist[2].asked # None
    /\ hist[1].asked # hist[2].asked
    /\ chats[1].pc = "for" /\ chats[1].k = 2
    /\ chats[2].pc = "call" /\ chats[2].iteration = 1
    /\ Len(hist[1].sent) = 1
    /\ Len(hist[2].sent) = 1
    /\ chats[1].tools_used # chats[2].tools_used

-----------------------------------------------------------------------------
(* Properties of the reporting tools, checked under ReportSpec: the state  *)
(* after a call holds the call and its time (tcall), the table (store) and *)
(* what the tool returned (tout).                                          *)

RECURSIVE SumOf(_, _)
SumOf(S, f) ==
    IF S = {} THEN 0
    ELSE LET x == CHOOSE x \in S : TRUE IN f[x] + SumOf(S \ {x}, f)
\* the sum of the amounts of the table rows with index in S, NULL as 0
AmountOf(S) == SumOf(S, [i \in 1..Len(store) |-> AmountOrZero(store[i])])

RecentReturned == tpc = "returned" /\ tcall.op = "get_recent_transactions"

\* C21: get_recent_transactions returns at most 50 records for every
\* requested limit, large, zero or negative, and every table size, and the
\* records are in descending order of date.
C21_AtMostFifty ==
    RecentReturned
    => /\ tout.count <= 50
       /\ Len(tout.transactions) <= 50
       /\ \A i \in 1..(Len(tout.transactions) - 1) :
             ~DateLess(tout.transactions[i].date, tout.transactions[i + 1].date)

Summarised ==
    /\ tpc = "returned"
    /\ tcall.op = "get_monthly_spending_summary"
    /\ thrown.raised = None
\* the rows of the month the summary names
RowsOfMonth(ym) ==
    {i \in 1..Len(store) : store[i].date[1] = ym[1] /\ store[i].date[2] = ym[2]}

\* C22: when no transaction falls in the target month, in particular on an
\* empty table, the summary is all zeros (no division error); and for every
\* table net_flow = total_income - total_spent, total_spent being the sum of
\* the month's debit amounts and total_income that of its credit amounts.
C22_MonthlyTotals ==
    Summarised
    => LET rowsIn == RowsOfMonth(tout.month)
       IN  /\ rowsIn = {} =>
                /\ tout.total_spent = 0
                /\ tout.total_income = 0
                /\ tout.net_flow = 0
                /\ tout.transaction_count = 0
                /\ tout.avg_transaction = 0
           /\ tout.total_spent = AmountOf({i \in rowsIn : store[i].type = "debit"})
           /\ tout.total_income = AmountOf({i \in rowsIn : store[i].type = "credit"})
           /\ tout.net_flow = tout.total_income - tout.total_spent
           /\ tout.transaction_count = Cardinality(rowsIn)
C22_Witness ==
    /\ Summarised
    /\ Len(store) > 0
    /\ RowsOfMonth(tout.month) = {}
    /\ tout.avg_transaction = 0
    /\ tout.month = <<2025, 1>>

TopReturned == tpc = "returned" /\ tcall.op = "get_top_spending_categories"
\* the first day of the window of the call
WindowStart == MinusDays(tcall.now, tcall.arguments.days)
\* the debit rows dated within the trailing window that ends now
TrailingWindow ==
    LET start == WindowStart
    IN  {i \in 1..Len(store) :
            /\ store[i].type = "debit"
            /\ ~DateLess(store[i].date, start)
            /\ ~DateLess(tcall.now, store[i].date)}

\* C23: get_top_spending_categories aggregates only the debit transactions
\* dated within the last `days` days ending now: a credit, a transaction
\* older than the window or one dated after now adds to no amount, count or
\* total_analyzed.
C23_OnlyTrailingWindow ==
    TopReturned
    => LET window == TrailingWindow
       IN  /\ tout.total_analyzed = AmountOf(window)
           /\ \A k \in 1..Len(tout.categories) :
                 LET rowsOf == {i \in window : CategoryOrOther(store[i])
                                                 = tout.categories[k].category}
                 IN  /\ tout.categories[k].amount = AmountOf(rowsOf)
                     /\ tout.categories[k].count = Cardinality(rowsOf)

\* what the table holds for the call: the rows the tool selects (debit, dated
\* from the first day of the window on), their categories, and the rows and
\* the amount of each category
TopFacts ==
    LET start == WindowStart
        selected == {i \in 1..Len(store) : InWindow(store[i], start, tcall.now)}
        cat == [i \in selected |-> CategoryOrOther(store[i])]
        categories == {cat[i] : i \in selected}
        rowsIn == [c \in categories |-> {i \in selected : cat[i] = c}]
    IN  [categories |-> categories,
         rowsIn |-> rowsIn,
         amt |-> [c \in categories |-> AmountOf(rowsIn[c])]]
Returned == {tout.categories[k].category : k \in 1..Len(tout.categories)}
TopShape(facts) ==
    /\ \A k \in 1..(Len(tout.categories) - 1) :
          tout.categories[k].amount >= tout.categories[k + 1].amount
    /\ \A k \in 1..Len(tout.categories) :
          /\ tout.categories[k].category \in facts.categories
          /\ tout.categories[k].amount = facts.amt[tout.categories[k].category]
          /\ tout.categories[k].count
                = Cardinality(facts.rowsIn[tout.categories[k].category])
          /\ \A c \in facts.categories \ Returned :
                facts.amt[c] <= tout.categories[k].amount
          /\ IF tout.total_analyzed > 0
             THEN LET d == tout.categories[k].percentage * tout.total_analyzed
                           - 1000 * tout.categories[k].amount
                  IN  2 * d <= tout.total_analyzed /\ -2 * d <= tout.total_analyzed
             ELSE tout.categories[k].percentage = 0
    /\ Cardinality(Returned) = Len(tout.categories)
    /\ tout.total_analyzed = SumOf(facts.categories, facts.amt)
Min(a, b) == IF a < b THEN a ELSE b

\* C24 as claimed: for every limit, get_top_spending_categories returns
\* min(limit, number of categories in the window) entries, the ones of the
\* largest amounts in descending order of amount, each with its share of
\* the whole window total.
C24_TopLimit ==
    TopReturned
    => LET facts == TopFacts
       IN  /\ Len(tout.categories)
                 = Min(tcall.arguments.limit, Cardinality(facts.categories))
           /\ TopShape(facts)

\* C24 as amended: the same for a limit of 0 or more; for a negative limit
\* the entries are the sorted categories without the last -limit of them.
C24_TopLimitNonNegative ==
    TopReturned
    => LET facts == TopFacts
           n == Cardinality(facts.categories)
       IN  /\ tcall.arguments.limit >= 0 =>
                 Len(tout.categories) = Min(tcall.arguments.limit, n)
           /\ tcall.arguments.limit < 0 =>
                 Len(tout.categories)
                    = (IF n + tcall.arguments.limit > 0
                       THEN n + tcall.arguments.limit ELSE 0)
           /\ TopShape(facts)
C24_Witness ==
    /\ TopReturned
    /\ tcall.arguments.limit = 2
    /\ Cardinality(TopFacts.categories) = 4
    /\ Len(tout.categories) = 2
    /\ tout.categories[1].amount > tout.categories[2].amount
    /\ tout.categories[1].amount + tout.categories[2].amount < tout.total_analyzed
    /\ tout.categories[1].category # CategoryOrOther(store[1])

\* the number a month argument stands for
MonthNumber(month) ==
    IF month.type = "int" THEN month.v
    ELSE IF month.v = "3" THEN 3
    ELSE IF month.v = "12" THEN 12
    ELSE 0

\* C26: get_monthly_spending_summary called with the month as a number 1 to
\* 12, an integer or its string form, and a year, summarises that month of
\* that year.
C26_NumericMonth ==
    (/\ tpc = "returned"
     /\ tcall.op = "get_monthly_spending_summary"
     /\ MonthNumber(tcall.arguments.month) \in 1..12
     /\ tcall.arguments.year.type = "int"
     /\ tcall.arguments.year.v \in 1..9999)
    => /\ thrown.raised = None
       /\ tout.month = <<tcall.arguments.year.v, MonthNumber(tcall.arguments.month)>>
       /\ tout.transaction_count = Cardinality(RowsOfMonth(
             <<tcall.arguments.year.v, MonthNumber(tcall.arguments.month)>>))

\* the largest amount of the table, NULL counted as 0
MaxAmount ==
    CHOOSE a \in {AmountOrZero(store[i]) : i \in 1..Len(store)} :
        \A i \in 1..Len(store) : AmountOrZero(store[i]) <= a
SmallTableOrFullPercentile ==
    /\ tpc = "returned"
    /\ tcall.op = "detect_anomalies"
    /\ Len(store) >= 1
    /\ \/ /\ tcall.arguments.threshold_percentile.v = 95
          /\ Len(store) <= 20
       \/ tcall.arguments.threshold_percentile.v >= 100

\* C30: with threshold_percentile 95 and a table of 1 to 20 transactions,
\* and with threshold_percentile 100 or more on a table of any size,
\* detect_anomalies takes the maximum amount as threshold_amount, so no
\* transaction is flagged as high-value: every anomaly returned is a
\* transaction flagged is_suspicious, listed with that reason.
C30_ThresholdIsMaximum ==
    SmallTableOrFullPercentile
    => /\ tout.threshold_amount = MaxAmount
       /\ \A k \in 1..Len(tout.anomalies) :
             /\ tout.anomalies[k].reason = FLAGGED
             /\ \E i \in 1..Len(store) :
                   /\ store[i].txn_id = tout.anomalies[k].txn_id
                   /\ store[i].is_suspicious
C30_Witness ==
    /\ SmallTableOrFullPercentile
    /\ tcall.arguments.threshold_percentile.v = 95
    /\ Len(store) = 20
    /\ tout.threshold_amount = 2000
    /\ Len(tout.anomalies) = 2

-----------------------------------------------------------------------------
(* Properties of chat's tool list, tools_used and error path, checked      *)
(* under Spec                                                              *)

\* the tools of modules/mcp/tools.py, in the order MCP_TOOLS registers them
REGISTERED ==
    <<"get_monthly_spending_summary", "get_top_spending_categories",
      "detect_anomalies", "get_recent_transactions">>
FullList(tools) ==
    /\ Len(tools) = Len(REGISTERED)
    /\ \A k \in 1..Len(tools) :
          /\ tools[k].type = "function"
          /\ tools[k].function.name = REGISTERED[k]
          /\ tools[k].function.name = registry[k].name
    /\ \A k \in 1..Len(tools), l \in 1..Len(tools) :
          k # l => tools[k].function.name # tools[l].function.name

\* C25: the tool list is fixed and ordered: one entry per registered tool, in
\* registration order, with unique names, and every provider call of a chat,
\* the first one and the one after each tool round, carries this full list.
C25_FullListAttached ==
    /\ Len(registry) = Len(REGISTERED)
    /\ \A i \in 1..Len(sent) :
          /\ FullList(sent[i].tools)
          /\ sent[i].tools = sent[1].tools
C25_Witness ==
    /\ pc = "done"
    /\ Len(sent) = 3
    /\ rounds = 2
    /\ FullList(sent[3].tools)

\* the tool-role messages of the sequence
ToolRoleMessages == {i \in 1..Len(messages) : messages[i].role = "tool"}

\* C27 as claimed: when chat returns, tools_used holds one entry per executed
\* tool call, in execution order; its length is the number of tool-role
\* messages, and the sequence has 2 plus twice that number of messages.
C27_OnePerToolMessage ==
    pc = "done"
    => /\ tools_used = ExecutedNames
       /\ chat_result.tools_used = tools_used
       /\ Len(tools_used) = Cardinality(ToolRoleMessages)
       /\ Len(messages) = 2 + 2 * Cardinality(ToolRoleMessages)

\* C27 as amended: the same, except after a tool call without an id: that
\* call is executed and recorded and its assistant message appended, but it
\* gets no tool-role message, so tools_used and the sequence are one longer.
C27_OnePerExecutedCall ==
    pc = "done"
    => LET extra == IF chat_result.response = PROCESSING_ERROR
                       /\ chat_result.error = "'id'" THEN 1 ELSE 0
       IN  /\ tools_used = ExecutedNames
           /\ chat_result.tools_used = tools_used
           /\ Len(tools_used) = Cardinality(ToolRoleMessages) + extra
           /\ Len(messages) = 2 + 2 * Cardinality(ToolRoleMessages) + extra
C27_Witness ==
    /\ pc = "done"
    /\ chat_result.success
    /\ chat_result.tools_used =
          <<"run_sql", "get_monthly_spending_summary", "detect_anomalies",
            "get_recent_transactions", "get_top_spending_categories">>
    /\ Cardinality(ToolRoleMessages) = 5

ResultKeys == {"success", "response", "tools_used", "provider_used", "error"}
Malformed(tool_call) ==
    "id" \notin DOMAIN tool_call \/ "name" \notin DOMAIN tool_call.function

BrokenArguments(tool_call) ==
    /\ ~Malformed(tool_call)
    /\ tool_call.function.arguments = ARGS_BROKEN

\* C29: a tool call whose arguments string is not valid JSON is executed
\* with no arguments: its tool-role message carries what the tool returns
\* with all its defaults, not an error; the tool is recorded in tools_used
\* and the loop goes on to the next provider call.
C29_BrokenArgumentsUseDefaults ==
    \A k \in 1..Len(executed) :
        BrokenArguments(executed[k])
        => LET defaults == execute_tool(executed[k].function.name, EmptyDict)
           IN  /\ defaults.success
               /\ messages[2 * k + 2] =
                     [role |-> "tool", tool_call_id |-> executed[k].id,
                      content |-> json_dumps(defaults.result)]
               /\ messages[2 * k + 2].content =
                     "{\"tool\": \"get_recent_transactions\", \"rows\": \"...\"}"
               /\ tools_used[k] = executed[k].function.name
               /\ \E i \in 1..Len(sent) :
                     /\ sent[i].n_executed >= k
                     /\ sent[i].messages[2 * k + 2] = messages[2 * k + 2]
C29_Witness ==
    /\ pc = "done"
    /\ chat_result.success
    /\ executed = <<tcUnknown, tcYear0, tcBogus, tcRecent>>
    /\ BrokenArguments(executed[4])
    /\ chat_result.tools_used[4] = "get_recent_transactions"
    /\ messages[10].role = "tool"

====
